---- MODULE Spec2Model ----
(***************************************************************************)
(* MDS Agency API: the event / telemetry validation and submission         *)
(* pipeline of mds-agency (request-handlers.ts and utils.ts).              *)
(*                                                                         *)
(* JavaScript values are modelled by records with a kind field k, so that  *)
(* undefined, null, NaN, strings and numbers stay distinct.  A number is   *)
(* n (half = FALSE) or n + 0.5 (half = TRUE).                              *)
(***************************************************************************)
EXTENDS Integers, Sequences, FiniteSets

-----------------------------------------------------------------------------
(* JavaScript values *)

Num(i) == [k |-> "number", n |-> i, half |-> FALSE]

Half(i) == [k |-> "number", n |-> i, half |-> TRUE]

Undefined == [k |-> "undefined", n |-> 0, half |-> FALSE]

Null == [k |-> "null", n |-> 0, half |-> FALSE]

NaN == [k |-> "NaN", n |-> 0, half |-> FALSE]

Str == [k |-> "string", n |-> 0, half |-> FALSE]

\* typeof v === 'number' (NaN is a number to typeof)
TypeofNumber(v) == v.k \in {"number", "NaN"}

\* v < b and v > b for an integer b; any comparison with NaN is false
LessThan(v, b) == v.k = "number" /\ v.n < b

GreaterThan(v, b) == v.k = "number" /\ (IF v.half THEN v.n >= b ELSE v.n > b)

\* v === 0
IsZero(v) == v.k = "number" /\ v.n = 0 /\ ~v.half

\* v !== undefined && v !== null
Present(v) == v.k \notin {"undefined", "null"}

\* Number.isInteger(v)
NumberIsInteger(v) == v.k = "number" /\ ~v.half

-----------------------------------------------------------------------------
(* @mds-core/mds-utils and @mds-core/mds-types: not part of the sources at  *)
(* hand; modelled from their use and from the specification's data model.  *)

\* identifiers are strings; these are the well-formed UUIDs of the model
UUIDs == {"d1", "d2", "t1"}

UNDEFINED == "undefined"

NULL == "null"

isUUID(s) == s \in UUIDs

\* a finite floating value
isFloat(v) == v.k = "number"

\* a percentage: a number in [0, 1]
isPct(v) == v.k = "number" /\ ~LessThan(v, 0) /\ ~GreaterThan(v, 1)

\* a millisecond timestamp: a positive number
isTimestamp(v) == v.k = "number" /\ GreaterThan(v, 0)

\* areThereCommonElements(arr1, arr2): the sets of elements intersect
areThereCommonElements(set1, seq2) ==
    \E i \in 1..Len(seq2) : seq2[i] \in set1

MICRO_MOBILITY_VEHICLE_EVENTS ==
    {"trip_start", "trip_end", "trip_enter_jurisdiction", "trip_leave_jurisdiction",
     "provider_drop_off", "reservation_start", "battery_low", "decommissioned"}

MICRO_MOBILITY_VEHICLE_STATES ==
    {"available", "on_trip", "reserved", "removed", "non_operational", "elsewhere", "unknown"}

TAXI_VEHICLE_EVENTS ==
    {"trip_start", "trip_end", "trip_enter_jurisdiction", "trip_leave_jurisdiction",
     "provider_drop_off", "reservation_start", "trip_stop", "passenger_cancellation",
     "decommissioned"}

TAXI_VEHICLE_STATES ==
    {"available", "on_trip", "reserved", "stopped", "removed", "non_operational",
     "elsewhere", "unknown"}

TNC_VEHICLE_EVENT == TAXI_VEHICLE_EVENTS

TNC_VEHICLE_STATE == TAXI_VEHICLE_STATES

TRIP_STATES == {"on_trip", "reserved", "stopped"}

TAXI_TRIP_EXIT_EVENTS == {"trip_end", "trip_leave_jurisdiction", "passenger_cancellation"}

TNC_TRIP_EXIT_EVENTS == TAXI_TRIP_EXIT_EVENTS

MODALITIES == {"micromobility", "taxi", "tnc"}

-----------------------------------------------------------------------------
(* utils.ts: lower *)

lower(s) ==
    CASE s = "TRIP_START" -> "trip_start"
      [] s = "TRIP_END" -> "trip_end"
      [] OTHER -> s

-----------------------------------------------------------------------------
(* utils.ts: badTelemetry *)

\* the ErrorObject returned, or NoFailure for null; a thrown TypeError is
\* the failure Thrown
Failure(e, d) == [error |-> e, error_description |-> d]

NoFailure == Failure("null", "")

Thrown == Failure("throw", "TypeError")

LATITUDE_LOWER_BOUND == -90

LATITUDE_UPPER_BOUND == 90

LONGITUDE_LOWER_BOUND == -180

LONGITUDE_UPPER_BOUND == 180

\* the satellites check as written: Number.isInteger only
SatellitesRejected(satellites) == Present(satellites) /\ ~NumberIsInteger(satellites)

\* telemetry.k is "object", "null" or "undefined"; gps.k likewise, or "string"
badTelemetry(telemetry) ==
    IF telemetry.k # "object" THEN Failure("missing_param", "invalid missing telemetry")
    ELSE LET gps == telemetry.gps IN
    IF gps.k \notin {"object", "null"} THEN Failure("missing_param", "invalid missing gps")
    ELSE IF gps.k = "null" THEN Thrown   \* typeof null is 'object'; destructuring null throws
    ELSE IF ~isUUID(telemetry.device_id)
         THEN Failure("missing_param", "no device_id included in telemetry")
    ELSE IF \/ ~TypeofNumber(gps.lat)
            \/ gps.lat.k = "NaN"
            \/ LessThan(gps.lat, LATITUDE_LOWER_BOUND)
            \/ GreaterThan(gps.lat, LATITUDE_UPPER_BOUND)
            \/ IsZero(gps.lat)
         THEN Failure("bad_param", "invalid lat")
    ELSE IF \/ ~TypeofNumber(gps.lng)
            \/ gps.lng.k = "NaN"
            \/ LessThan(gps.lng, LONGITUDE_LOWER_BOUND)
            \/ GreaterThan(gps.lng, LONGITUDE_UPPER_BOUND)
            \/ IsZero(gps.lng)
         THEN Failure("bad_param", "invalid lng")
    ELSE IF Present(gps.altitude) /\ ~isFloat(gps.altitude)
         THEN Failure("bad_param", "invalid altitude")
    ELSE IF Present(gps.accuracy) /\ ~isFloat(gps.accuracy)
         THEN Failure("bad_param", "invalid accuracy")
    ELSE IF Present(gps.speed) /\ ~isFloat(gps.speed)
         THEN Failure("bad_param", "invalid speed")
    ELSE IF SatellitesRejected(gps.satellites)
         THEN Failure("bad_param", "invalid satellites")
    ELSE IF Present(telemetry.charge) /\ ~isPct(telemetry.charge)
         THEN Failure("bad_param", "invalid charge")
    ELSE IF ~isTimestamp(telemetry.timestamp)
         THEN Failure("bad_param", "invalid timestamp")
    ELSE NoFailure

-----------------------------------------------------------------------------
(* utils.ts: badEvent *)

\* JavaScript truthiness of a string-valued field
Truthy(s) == s \notin {UNDEFINED, NULL, ""}

\* Array.prototype.includes over event_types
Includes(seq, x) == \E i \in 1..Len(seq) : seq[i] = x

\* the first element of seq outside vocabulary, as the for-of loop finds it
AllIn(seq, vocabulary) == \A i \in 1..Len(seq) : seq[i] \in vocabulary

TRIP_BOUNDARY_EVENTS ==
    {"trip_start", "trip_end", "trip_enter_jurisdiction", "trip_leave_jurisdiction"}

\* the trip_state requirement testing only that a trip_state is there
tripStateFailure_presence_only(event, exit_events) ==
    IF /\ Truthy(event.trip_id)
       /\ event.vehicle_state \in TRIP_STATES
       /\ ~areThereCommonElements(exit_events, event.event_types.v)
       /\ ~Truthy(event.trip_state)
    THEN Failure("missing_param", "missing enum field trip_state required on trip events")
    ELSE NoFailure

\* lines 347-359 and 370-382: the trip_state requirement of taxi and tnc
tripStateFailure(event, exit_events) ==
    IF /\ Truthy(event.trip_id)
       /\ event.vehicle_state \in TRIP_STATES
       /\ ~areThereCommonElements(exit_events, event.event_types.v)
    THEN IF ~Truthy(event.trip_state)
         THEN Failure("missing_param", "missing enum field trip_state required on trip events")
         ELSE IF event.trip_state \notin TRIP_STATES
         THEN Failure("bad_param", "invalid trip_state")
         ELSE NoFailure
    ELSE NoFailure

\* the dispatch on modality, looking at the first element of event_types only
modalityFailure_first_type_only(modality, event) ==
    LET check(events, states) ==
            IF event.event_types.v[1] \notin events
            THEN Failure("bad_param", "invalid event_type in event_types")
            ELSE IF event.vehicle_state \notin states
            THEN Failure("bad_param", "invalid vehicle_state")
            ELSE NoFailure
    IN  CASE modality = "micromobility" ->
               check(MICRO_MOBILITY_VEHICLE_EVENTS, MICRO_MOBILITY_VEHICLE_STATES)
          [] modality = "taxi" ->
               LET f == check(TAXI_VEHICLE_EVENTS, TAXI_VEHICLE_STATES)
               IN  IF f # NoFailure THEN f ELSE tripStateFailure(event, TAXI_TRIP_EXIT_EVENTS)
          [] modality = "tnc" ->
               LET f == check(TNC_VEHICLE_EVENT, TNC_VEHICLE_STATE)
               IN  IF f # NoFailure THEN f ELSE tripStateFailure(event, TNC_TRIP_EXIT_EVENTS)
          [] OTHER -> Failure("bad_param", "invalid event_types in")

\* lines 328-385: the dispatch on modality
modalityFailure(modality, event) ==
    LET check(events, states) ==
            IF ~AllIn(event.event_types.v, events)
            THEN Failure("bad_param", "invalid event_type in event_types")
            ELSE IF event.vehicle_state \notin states
            THEN Failure("bad_param", "invalid vehicle_state")
            ELSE NoFailure
    IN  CASE modality = "micromobility" ->
               check(MICRO_MOBILITY_VEHICLE_EVENTS, MICRO_MOBILITY_VEHICLE_STATES)
          [] modality = "taxi" ->
               LET f == check(TAXI_VEHICLE_EVENTS, TAXI_VEHICLE_STATES)
               IN  IF f # NoFailure THEN f ELSE tripStateFailure(event, TAXI_TRIP_EXIT_EVENTS)
          [] modality = "tnc" ->
               LET f == check(TNC_VEHICLE_EVENT, TNC_VEHICLE_STATE)
               IN  IF f # NoFailure THEN f ELSE tripStateFailure(event, TNC_TRIP_EXIT_EVENTS)
          [] OTHER -> Failure("bad_param", "invalid event_types in")

\* lines 293-326: the checks before the dispatch
shapeFailure(event) ==
    IF event.timestamp.k = "undefined"
    THEN Failure("missing_param", "missing enum field timestamp")
    ELSE IF ~isTimestamp(event.timestamp)
    THEN Failure("bad_param", "invalid timestamp")
    ELSE IF event.event_types.k = "undefined"
    THEN Failure("missing_param", "missing enum field event_type")
    ELSE IF event.event_types.k # "array"
    THEN Failure("bad_param", "invalid event_types")
    ELSE IF Len(event.event_types.v) = 0
    THEN Failure("bad_param", "empty event_types array")
    ELSE IF ~Truthy(event.vehicle_state)
    THEN Failure("missing_param", "missing enum field vehicle_state")
    ELSE NoFailure

normalizeTripId_keeps_empty(event) == event

\* lines 387-391: an empty-string trip_id becomes null, in the event itself
normalizeTripId(event) ==
    IF event.trip_id = "" THEN [event EXCEPT !.trip_id = NULL] ELSE event

\* lines 401-409
missingTripId(trip_id) ==
    IF ~Truthy(trip_id) THEN Failure("missing_param", "missing trip_id") ELSE NoFailure

\* the event-specific checks asking for the trip_id before the telemetry
tripFailure_trip_id_first(event) ==
    IF event.trip_id \notin {NULL, UNDEFINED} /\ ~isUUID(event.trip_id)
    THEN Failure("bad_param", "invalid trip_id is not a UUID")
    ELSE IF areThereCommonElements(TRIP_BOUNDARY_EVENTS, event.event_types.v)
    THEN LET m == missingTripId(event.trip_id)
         IN  IF m # NoFailure THEN m ELSE badTelemetry(event.telemetry)
    ELSE IF Includes(event.event_types.v, "provider_drop_off")
    THEN badTelemetry(event.telemetry)
    ELSE NoFailure

\* lines 393-426, on the event with its trip_id normalized
tripFailure(event) ==
    IF event.trip_id \notin {NULL, UNDEFINED} /\ ~isUUID(event.trip_id)
    THEN Failure("bad_param", "invalid trip_id is not a UUID")
    ELSE IF areThereCommonElements(TRIP_BOUNDARY_EVENTS, event.event_types.v)
    THEN LET t == badTelemetry(event.telemetry)
         IN  IF t # NoFailure THEN t ELSE missingTripId(event.trip_id)
    ELSE IF Includes(event.event_types.v, "provider_drop_off")
    THEN badTelemetry(event.telemetry)
    ELSE NoFailure

\* badEvent's result and the event as badEvent leaves it
badEventResult(device, event) ==
    LET s == shapeFailure(event) IN
    IF s # NoFailure THEN [failure |-> s, event |-> event]
    ELSE LET m == modalityFailure(device.modality, event) IN
    IF m # NoFailure THEN [failure |-> m, event |-> event]
    ELSE [failure |-> tripFailure(normalizeTripId(event)), event |-> normalizeTripId(event)]

badEvent(device, event) == badEventResult(device, event).failure

-----------------------------------------------------------------------------
(* Bounds and inputs of the model *)

\* event and telemetry timestamps are drawn from 1..MaxTimestamp
MaxTimestamp == 2

\* collaborator calls that fail for a reason of their own (an outage, an error
\* of the store), in one run
MaxFaults == 2

\* the two submitVehicleEvent requests of a run: one after the other, or
\* overlapping at any of their awaits
Requests == {1, 2}

Timestamps == 1..MaxTimestamp

\* the one provider of the authenticated requests (res.locals.provider_id)
PROVIDER == "p1"

NoGps ==
    [k |-> "undefined", lat |-> Undefined, lng |-> Undefined, altitude |-> Undefined,
     accuracy |-> Undefined, speed |-> Undefined, satellites |-> Undefined]

Gps(lat, lng) == [NoGps EXCEPT !.k = "object", !.lat = lat, !.lng = lng]

\* req.body.telemetry absent
NoTelemetry ==
    [k |-> "null", device_id |-> UNDEFINED, provider_id |-> UNDEFINED,
     timestamp |-> Undefined, gps |-> NoGps, charge |-> Undefined]

TelemetryAt(ts, gps) ==
    [NoTelemetry EXCEPT !.k = "object", !.timestamp = Num(ts), !.gps = gps]

Body(types, state, trip_id, telemetry, ts) ==
    [event_types |-> [k |-> "array", v |-> types], vehicle_state |-> state,
     trip_state |-> UNDEFINED, trip_id |-> trip_id, telemetry |-> telemetry,
     timestamp |-> Num(ts)]

\* the request bodies submitted: accepted ones without and with telemetry,
\* one the Event Validator rejects, one only the Telemetry Validator rejects
Bodies ==
    {Body(<<"reservation_start">>, "reserved", "", NoTelemetry, ts) : ts \in Timestamps}
    \cup {Body(<<"TRIP_START">>, "on_trip", "t1",
                 TelemetryAt(MaxTimestamp, Gps(Num(33 + ts), Num(-118))), ts) : ts \in Timestamps}
    \cup {Body(<<"battery_low">>, "available", "junk", NoTelemetry, 1)}
    \cup {Body(<<"battery_low">>, "available", "", TelemetryAt(1, Gps(Num(0), Num(-118))), 1)}

\* the devices registered by registerVehicle, and the device_ids submitted
DeviceRecord(id, modality) ==
    [device_id |-> id, provider_id |-> PROVIDER, modality |-> modality, vehicle_id |-> "v1",
     status |-> "removed"]

\* the device registerVehicle registers; a submission that comes before is for
\* an unregistered device
Registrations == {DeviceRecord("d1", "micromobility")}

DeviceIds == {"d1"}

Submissions == {<<device_id, body>> : device_id \in DeviceIds, body \in Bodies}

NoDevice ==
    [device_id |-> UNDEFINED, provider_id |-> PROVIDER, modality |-> UNDEFINED,
     vehicle_id |-> UNDEFINED, status |-> UNDEFINED]

-----------------------------------------------------------------------------
(* State *)

VARIABLES
    dbDevices,       \* store of record: the devices
    dbEvents,        \* store of record: the events, unique on (device_id, timestamp)
    dbTelemetry,     \* store of record: telemetry, unique on (device_id, timestamp)
    cacheDevices,    \* cache: the device_ids it holds a device for
    cacheEvents,     \* cache: device_id -> the event last written
    cacheTelemetry,  \* cache: device_id -> the telemetry last written
    streamDevice,    \* stream: the devices appended
    streamEvent,     \* stream: the events appended
    streamTelemetry, \* stream: the telemetry appended
    streamError,     \* stream: the writeEventError records appended
    req,             \* each submitVehicleEvent request: its locals, position and response
    batch,           \* each submitVehicleTelemetry request: its locals, position and response
    reg,             \* each registerVehicle request: its locals, position and response
    upd,             \* each updateVehicle request: its locals, position and response
    faults,          \* the collaborator failures so far
    telemetryIn,     \* validator harness: the telemetry given to badTelemetry
    telemetryOut,    \* validator harness: what badTelemetry returned, once called
    eventIn,         \* validator harness: the device and the event given to badEvent
    eventOut,        \* validator harness: what badEvent returned, once called
    payloadIn,       \* the payload given to computeCompositeVehicleData, as it is now
    payloadGiven,    \* the payload as it was when it was given
    compositeOut,    \* what computeCompositeVehicleData returned, once called
    apiIn,           \* provider API harness: the request given to the middleware
    apiOut           \* provider API harness: what the middleware did with it, once called

storeVars == <<dbDevices, dbEvents, dbTelemetry>>

cacheVars == <<cacheDevices, cacheEvents, cacheTelemetry>>

streamVars == <<streamDevice, streamEvent, streamTelemetry, streamError>>

harnessVars == <<telemetryIn, telemetryOut, eventIn, eventOut, payloadIn, payloadGiven, compositeOut,
                 apiIn, apiOut>>

deviceVars == <<reg, upd>>

vars == <<storeVars, cacheVars, streamVars, req, batch, deviceVars, faults, harnessVars>>

\* a collaborator call fails for a reason of its own
Fault == faults < MaxFaults /\ faults' = faults + 1

NoFault == faults' = faults

\* no response sent yet
NoResponse ==
    [sent |-> 0, status |-> 0, error |-> "", error_description |-> "",
     device_id |-> UNDEFINED, state |-> UNDEFINED]

NoBody == Body(<< >>, UNDEFINED, UNDEFINED, NoTelemetry, 0)

NoEvent ==
    [device_id |-> UNDEFINED, provider_id |-> UNDEFINED,
     event_types |-> [k |-> "undefined", v |-> << >>], vehicle_state |-> UNDEFINED,
     trip_state |-> NULL, telemetry |-> NoTelemetry, timestamp |-> Undefined,
     trip_id |-> UNDEFINED, telemetry_timestamp |-> Undefined]

\* computeCompositeVehicleData's payload: event and telemetry are undefined, null or
\* an object (k); gps likewise
PayloadEvent(k, types, state, ts) ==
    [k |-> k, event_types |-> types, vehicle_state |-> state, timestamp |-> ts]

PayloadGps(k, lat, lng) == [k |-> k, lat |-> lat, lng |-> lng]

PayloadTelemetry(k, gps) == [k |-> k, gps |-> gps]

AbsentGps == PayloadGps("undefined", Undefined, Undefined)

NoPayload ==
    [device |-> NoDevice, event |-> PayloadEvent("undefined", << >>, UNDEFINED, Undefined),
     telemetry |-> PayloadTelemetry("undefined", AbsentGps)]

\* the composite before computeCompositeVehicleData is called
NoComposite ==
    [called |-> FALSE, device |-> NoDevice, state |-> UNDEFINED, prev_events |-> << >>,
     updated |-> Undefined, gps |-> AbsentGps]

\* the validator harness before badEvent is given anything
NoEventInput == [device |-> NoDevice, event |-> NoEvent]

IdleRequest ==
    [pc |-> "idle", device_id |-> UNDEFINED, body |-> NoBody, event |-> NoEvent,
     device |-> NoDevice,
     failure |-> NoFailure, message |-> "", res |-> NoResponse, pending |-> {},
     wrote |-> {}, after |-> {}]

\* the registerVehicle and the updateVehicle requests of a run
RegRequests == {1, 2}

UpdRequests == {1}

DeviceNoResponse == [sent |-> 0, status |-> 0, error |-> ""]

\* a registerVehicle or updateVehicle request before it is received
IdleDeviceRequest ==
    [pc |-> "idle", provider_id |-> UNDEFINED, device |-> NoDevice, update |-> UNDEFINED,
     wrote |-> FALSE, pending |-> {}, settled |-> {}, res |-> DeviceNoResponse]

\* the submitVehicleTelemetry requests in flight
BatchRequests == {1, 2}

\* an item of req.body.data; gps.k is "object" or "undefined"
BatchGps(k, lat, lng) ==
    [k |-> k, lat |-> lat, lng |-> lng, altitude |-> Undefined, speed |-> Undefined,
     hdop |-> Undefined, satellites |-> Undefined]

BatchItem(device_id, ts, gps) ==
    [device_id |-> device_id, timestamp |-> Num(ts), charge |-> Undefined, gps |-> gps]

BatchItems ==
    {BatchItem("d1", ts, BatchGps("object", Num(34), Num(-118))) : ts \in Timestamps}
    \cup
    {BatchItem("d1", 1, BatchGps("object", Num(0), Num(-118))),
     BatchItem("d2", 1, BatchGps("object", Num(34), Num(-118))),
     BatchItem("d1", 1, BatchGps("undefined", Undefined, Undefined))}

\* req.body.data: absent, or an array of one or two items
NoData == [k |-> "undefined", v |-> << >>]

BatchInputs ==
    {NoData}
    \cup {[k |-> "array", v |-> <<item>>] : item \in BatchItems}
    \cup {[k |-> "array", v |-> <<item1, item2>>] : item1 \in BatchItems, item2 \in BatchItems}

BatchNoResponse ==
    [sent |-> 0, status |-> 0, error |-> "", error_description |-> "", success |-> 0,
     total |-> 0, failures |-> << >>, error_details |-> << >>, device_id |-> UNDEFINED]

IdleBatch ==
    [pc |-> "idle", data |-> NoData, valid |-> << >>, failures |-> << >>,
     wrote |-> FALSE, before |-> {}, recorded |-> {}, forwarded |-> {}, pending |-> {},
     settled |-> {}, res |-> BatchNoResponse, after |-> {}]

-----------------------------------------------------------------------------
(* The collaborators: store of record, cache and stream.  Their code is not *)
(* part of the sources at hand; they are modelled from section 6 of the    *)
(* specification.                                                          *)

\* db.readDevice(device_id, provider_id): the device, or NoDevice (NotFound)
dbReadDevice(device_id, provider_id) ==
    IF \E d \in dbDevices : d.device_id = device_id /\ d.provider_id = provider_id
    THEN CHOOSE d \in dbDevices : d.device_id = device_id /\ d.provider_id = provider_id
    ELSE NoDevice

\* the uniqueness constraint of the events: (device_id, timestamp)
dbHasEvent(event) ==
    \E e \in dbEvents : e.device_id = event.device_id /\ e.timestamp = event.timestamp

\* db.writeTelemetry(list): the rows newly recorded, duplicates absorbed
dbNewTelemetry(rows) ==
    {t \in rows : ~\E u \in dbTelemetry : u.device_id = t.device_id /\ u.timestamp = t.timestamp}

\* cache.readDevice(device_id) resolves only for a device the cache holds
cacheHasDevice(device_id) == device_id \in cacheDevices

-----------------------------------------------------------------------------
(* request-handlers.ts: submitVehicleEvent *)

Send(res, status, error, description, device_id, state) ==
    [sent |-> res.sent + 1, status |-> status, error |-> error,
     error_description |-> description, device_id |-> device_id, state |-> state]

\* lines 253-279: the event built from the request
buildEvent(device_id, body) ==
    LET telemetry == IF body.telemetry.k = "object"
                     THEN [body.telemetry EXCEPT !.provider_id = PROVIDER]
                     ELSE NoTelemetry
    IN  [device_id |-> device_id,
         provider_id |-> PROVIDER,
         event_types |-> IF body.event_types.k = "array"
                         THEN [k |-> "array",
                               v |-> [i \in 1..Len(body.event_types.v) |->
                                        lower(body.event_types.v[i])]]
                         ELSE body.event_types,
         vehicle_state |-> body.vehicle_state,
         trip_state |-> IF Truthy(body.trip_state) THEN body.trip_state ELSE NULL,
         telemetry |-> telemetry,
         timestamp |-> body.timestamp,
         trip_id |-> body.trip_id,
         telemetry_timestamp |-> IF telemetry.k = "object" THEN telemetry.timestamp
                                 ELSE Undefined]

\* lines 281-296: success() sends 201 with the device_id and the event's state
success(q) ==
    [q EXCEPT !.res = Send(q.res, 201, "", "", q.device_id, q.event.vehicle_state),
              !.pc = "done"]

\* line 304: the description fail() gives a duplicate
DUPLICATE_DESCRIPTION ==
    "An event with this device_id and timestamp has already been received"

\* fail() without its branch for a duplicate: the uniqueness violation is answered as
\* any other error of the store
failResponse_without_duplicate(res, message) ==
    IF message \in {"not found", "unregistered"}
    THEN Send(res, 400, "unregistered", "The specified device_id has not been registered",
              UNDEFINED, UNDEFINED)
    ELSE Send(res, 500, "server_error", "Unknown server error", UNDEFINED, UNDEFINED)

\* fail() answering 404 for a device that was not found
failResponse_not_found_404(res, message) ==
    IF message = "duplicate"
    THEN Send(res, 400, "bad_param", DUPLICATE_DESCRIPTION, UNDEFINED, UNDEFINED)
    ELSE IF message \in {"not found", "unregistered"}
    THEN Send(res, 404, "unregistered", "The specified device_id has not been registered",
              UNDEFINED, UNDEFINED)
    ELSE Send(res, 500, "server_error", "Unknown server error", UNDEFINED, UNDEFINED)

\* lines 299-316: the response fail() sends for an error message
failResponse(res, message) ==
    IF message = "duplicate"
    THEN Send(res, 400, "bad_param", DUPLICATE_DESCRIPTION, UNDEFINED, UNDEFINED)
    ELSE IF message \in {"not found", "unregistered"}
    THEN Send(res, 400, "unregistered", "The specified device_id has not been registered",
              UNDEFINED, UNDEFINED)
    ELSE Send(res, 500, "server_error", "Unknown server error", UNDEFINED, UNDEFINED)

\* lines 376-378 and 299-324: the catch sends the response, then awaits the audit write
fail(q, message) ==
    [q EXCEPT !.res = failResponse(q.res, message),
              !.message = message,
              !.pc = "failAudit"]

\* lines 246-279 and 328: the request is received, its event built, and
\* db.readDevice returns the device or throws
ReadDevice(r) ==
    /\ req[r].pc = "idle"
    /\ \A q \in Requests : q < r => req[q].pc # "idle"
    /\ \E submission \in Submissions :
         LET q == [IdleRequest EXCEPT !.device_id = submission[1],
                                      !.body = submission[2],
                                      !.event = buildEvent(submission[1], submission[2]),
                                      !.after = {p \in Requests : req[p].res.sent > 0}]
             device == dbReadDevice(q.event.device_id, PROVIDER)
         IN  \/ /\ device # NoDevice
                /\ NoFault
                /\ req' = [req EXCEPT ![r] = [q EXCEPT !.device = device, !.pc = "cacheRead"]]
             \/ /\ device = NoDevice
                /\ NoFault
                /\ req' = [req EXCEPT ![r] = fail(q, "not found")]
             \/ /\ Fault
                /\ req' = [req EXCEPT ![r] = fail(q, "other")]
    /\ UNCHANGED <<storeVars, cacheVars, streamVars, batch, deviceVars, harnessVars>>

\* lines 339-342: device_id attached to the telemetry, then the validators
validationFailure(device, event) ==
    LET b == badEvent(device, event)
    IN  IF b # NoFailure THEN b
        ELSE IF event.telemetry.k = "object" THEN badTelemetry(event.telemetry)
        ELSE NoFailure

attachDeviceId(event) ==
    IF event.telemetry.k = "object"
    THEN [event EXCEPT !.telemetry.device_id = event.device_id]
    ELSE event

\* the handler going on to db.writeTelemetry before it looks at the validators' result
validate_rejects_transition(q) ==
    LET event == attachDeviceId(q.event)
        illegal == /\ event.vehicle_state = "reserved"
                   /\ \E e \in dbEvents : /\ e.device_id = event.device_id
                                          /\ e.vehicle_state = "on_trip"
        failure == IF illegal THEN Failure("bad_param", "illegal transition")
                   ELSE validationFailure(q.device, event)
        validated == badEventResult(q.device, event).event
    IN  IF failure = Thrown
        THEN fail([q EXCEPT !.event = validated], "other")
        ELSE [q EXCEPT !.event = validated,
                       !.failure = failure,
                       !.pc = IF failure # NoFailure THEN "auditFailure"
                              ELSE IF validated.telemetry.k = "object"
                              THEN "writeTelemetry"
                              ELSE "writeEvent"]

validate_writes_before_rejecting(q) ==
    LET event == attachDeviceId(q.event)
        failure == validationFailure(q.device, event)
        validated == badEventResult(q.device, event).event
    IN  IF failure = Thrown
        THEN fail([q EXCEPT !.event = validated], "other")
        ELSE [q EXCEPT !.event = validated,
                       !.failure = failure,
                       !.pc = IF validated.telemetry.k = "object" THEN "writeTelemetry"
                              ELSE IF failure # NoFailure THEN "auditFailure"
                              ELSE "writeEvent"]

\* lines 339-358: what the handler does, without touching any collaborator, between
\* the device being known and its next call: a rejected event goes to
\* stream.writeEventError, an accepted one to db.writeTelemetry or db.writeEvent
validate(q) ==
    LET event == attachDeviceId(q.event)
        failure == validationFailure(q.device, event)
        validated == badEventResult(q.device, event).event
    IN  IF failure = Thrown
        THEN fail([q EXCEPT !.event = validated], "other")
        ELSE [q EXCEPT !.event = validated,
                       !.failure = failure,
                       !.pc = IF failure # NoFailure THEN "auditFailure"
                              ELSE IF validated.telemetry.k = "object"
                              THEN "writeTelemetry"
                              ELSE "writeEvent"]

\* lines 329-333: cache.readDevice; when it throws, the re-seed is issued
CacheReadDevice(r) ==
    /\ req[r].pc = "cacheRead"
    /\ LET q == req[r]
           reseed == [q EXCEPT !.pending = {<<"device", "cache">>, <<"device", "stream">>},
                               !.pc = "awaitDevice"]
       IN  \/ /\ cacheHasDevice(q.event.device_id)
              /\ NoFault
              /\ req' = [req EXCEPT ![r] = validate(q)]
           \/ /\ ~cacheHasDevice(q.event.device_id)
              /\ NoFault
              /\ req' = [req EXCEPT ![r] = reseed]
           \/ /\ cacheHasDevice(q.event.device_id)
              /\ Fault
              /\ req' = [req EXCEPT ![r] = reseed]
    /\ UNCHANGED <<storeVars, cacheVars, streamVars, batch, deviceVars, harnessVars>>

\* the record stream.writeEventError appends
errorRecord(q, message) ==
    [provider_id |-> PROVIDER, data |-> q.event, error_message |-> message]

\* lines 344-353: the rejected event goes to the stream, then 400 to the caller
AuditFailure(r) ==
    /\ req[r].pc = "auditFailure"
    /\ LET q == req[r]
       IN  \/ /\ NoFault
              /\ streamError' = Append(streamError, errorRecord(q, q.failure.error_description))
              /\ req' = [req EXCEPT ![r] =
                           [q EXCEPT !.res = Send(q.res, 400, q.failure.error,
                                                  q.failure.error_description,
                                                  UNDEFINED, UNDEFINED),
                                     !.pc = "done"]]
           \/ /\ Fault
              /\ streamError' = streamError
              /\ req' = [req EXCEPT ![r] = fail(q, "other")]
    /\ UNCHANGED <<storeVars, cacheVars, streamDevice, streamEvent, streamTelemetry, batch, deviceVars, harnessVars>>

\* a failure of db.writeTelemetry caught and passed over: the handler goes on to
\* db.writeEvent
WriteTelemetry_failure_swallowed(r) ==
    /\ req[r].pc = "writeTelemetry"
    /\ LET q == req[r]
           rows == dbNewTelemetry({q.event.telemetry})
       IN  \/ /\ NoFault
              /\ dbTelemetry' = dbTelemetry \cup rows
              /\ req' = [req EXCEPT ![r] =
                           [q EXCEPT !.wrote = IF rows = {} THEN q.wrote
                                               ELSE q.wrote \cup {"telemetry"},
                                     !.pc = "writeEvent"]]
           \/ /\ Fault
              /\ dbTelemetry' = dbTelemetry
              /\ req' = [req EXCEPT ![r] = [q EXCEPT !.pc = "writeEvent"]]
    /\ UNCHANGED <<dbDevices, dbEvents, cacheVars, streamVars, batch, deviceVars, harnessVars>>

\* lines 355-358: db.writeTelemetry(normalizeToArray(telemetry))
WriteTelemetry(r) ==
    /\ req[r].pc = "writeTelemetry"
    /\ LET q == req[r]
           rows == dbNewTelemetry({q.event.telemetry})
       IN  \/ /\ NoFault
              /\ dbTelemetry' = dbTelemetry \cup rows
              /\ req' = [req EXCEPT ![r] =
                           [q EXCEPT !.wrote = IF rows = {} THEN q.wrote
                                               ELSE q.wrote \cup {"telemetry"},
                                     !.pc = "writeEvent"]]
           \/ /\ Fault
              /\ dbTelemetry' = dbTelemetry
              /\ req' = [req EXCEPT ![r] = fail(q, "other")]
    /\ UNCHANGED <<dbDevices, dbEvents, cacheVars, streamVars, batch, deviceVars, harnessVars>>

\* the handler swallowing the uniqueness violation of db.writeEvent and going on as
\* if the event had been written
WriteEvent_ignores_duplicate(r) ==
    /\ req[r].pc = "writeEvent"
    /\ LET q == req[r]
           issued == [q EXCEPT !.pending = q.pending \cup
                                          {<<"event", "cache">>, <<"event", "stream">>},
                              !.pc = "awaitEvent"]
       IN  \/ /\ ~dbHasEvent(q.event)
              /\ NoFault
              /\ dbEvents' = dbEvents \cup {q.event}
              /\ req' = [req EXCEPT ![r] = [issued EXCEPT !.wrote = q.wrote \cup {"event"}]]
           \/ /\ dbHasEvent(q.event)
              /\ NoFault
              /\ dbEvents' = dbEvents
              /\ req' = [req EXCEPT ![r] = issued]
           \/ /\ Fault
              /\ dbEvents' = dbEvents
              /\ req' = [req EXCEPT ![r] = fail(q, "other")]
    /\ UNCHANGED <<dbDevices, dbTelemetry, cacheVars, streamVars, batch, deviceVars, harnessVars>>

\* the event fan-out issued together with db.writeEvent instead of after it: the
\* cache and stream writes are in flight whatever the store answers
WriteEvent_fanout_with_write(r) ==
    /\ req[r].pc = "writeEvent"
    /\ LET q == [req[r] EXCEPT !.pending = req[r].pending \cup
                                           {<<"event", "cache">>, <<"event", "stream">>}]
       IN  \/ /\ ~dbHasEvent(q.event)
              /\ NoFault
              /\ dbEvents' = dbEvents \cup {q.event}
              /\ req' = [req EXCEPT ![r] =
                           [q EXCEPT !.wrote = q.wrote \cup {"event"}, !.pc = "awaitEvent"]]
           \/ /\ dbHasEvent(q.event)
              /\ NoFault
              /\ dbEvents' = dbEvents
              /\ req' = [req EXCEPT ![r] = fail(q, "duplicate")]
           \/ /\ Fault
              /\ dbEvents' = dbEvents
              /\ req' = [req EXCEPT ![r] = fail(q, "other")]
    /\ UNCHANGED <<dbDevices, dbTelemetry, cacheVars, streamVars, batch, deviceVars, harnessVars>>

\* lines 361-364: db.writeEvent, then the event fan-out is issued
WriteEvent(r) ==
    /\ req[r].pc = "writeEvent"
    /\ LET q == req[r]
       IN  \/ /\ ~dbHasEvent(q.event)
              /\ NoFault
              /\ dbEvents' = dbEvents \cup {q.event}
              /\ req' = [req EXCEPT ![r] =
                           [q EXCEPT !.wrote = q.wrote \cup {"event"},
                                     !.pending = q.pending \cup
                                                 {<<"event", "cache">>, <<"event", "stream">>},
                                     !.pc = "awaitEvent"]]
           \/ /\ dbHasEvent(q.event)
              /\ NoFault
              /\ dbEvents' = dbEvents
              /\ req' = [req EXCEPT ![r] = fail(q, "duplicate")]
           \/ /\ Fault
              /\ dbEvents' = dbEvents
              /\ req' = [req EXCEPT ![r] = fail(q, "other")]
    /\ UNCHANGED <<dbDevices, dbTelemetry, cacheVars, streamVars, batch, deviceVars, harnessVars>>

\* the Promise.all group the request is awaiting, if any
awaited(q) ==
    CASE q.pc = "awaitDevice" -> "device"
      [] q.pc = "awaitEvent" -> "event"
      [] q.pc = "awaitTelemetry" -> "telemetry"
      [] OTHER -> "none"

\* the re-seed of the device awaited without its own try/catch: its rejection reaches
\* the handler's catch and fail()
resume_reseed_fatal(q, resolved) ==
    CASE q.pc = "awaitDevice" -> IF resolved THEN validate(q) ELSE fail(q, "other")
      [] q.pc = "awaitEvent" ->
           IF resolved /\ q.event.telemetry.k = "object"
           THEN [q EXCEPT !.pending = q.pending \cup
                                      {<<"telemetry", "cache">>, <<"telemetry", "stream">>},
                          !.pc = "awaitTelemetry"]
           ELSE success(q)
      [] q.pc = "awaitTelemetry" -> success(q)
      [] OTHER -> q

\* the event fan-out awaited without its own try/catch: its rejection reaches the
\* handler's catch and fail()
resume_fanout_fatal(q, resolved) ==
    CASE q.pc = "awaitDevice" -> validate(q)
      [] q.pc = "awaitEvent" ->
           IF ~resolved THEN fail(q, "other")
           ELSE IF q.event.telemetry.k = "object"
           THEN [q EXCEPT !.pending = q.pending \cup
                                      {<<"telemetry", "cache">>, <<"telemetry", "stream">>},
                          !.pc = "awaitTelemetry"]
           ELSE success(q)
      [] q.pc = "awaitTelemetry" -> IF resolved THEN success(q) ELSE fail(q, "other")
      [] OTHER -> q

\* where the handler goes on once the awaited Promise.all settles: it rejects at the
\* first rejection and resolves when every call resolved (lines 333-338, 363-375)
resume(q, resolved) ==
    CASE q.pc = "awaitDevice" -> validate(q)
      [] q.pc = "awaitEvent" ->
           IF resolved /\ q.event.telemetry.k = "object"
           THEN [q EXCEPT !.pending = q.pending \cup
                                      {<<"telemetry", "cache">>, <<"telemetry", "stream">>},
                          !.pc = "awaitTelemetry"]
           ELSE success(q)
      [] q.pc = "awaitTelemetry" -> success(q)
      [] OTHER -> q

\* one cache or stream call of request r settles; a call whose Promise.all has
\* already rejected settles later, unawaited
settle(q, call, ok) ==
    LET left == [q EXCEPT !.pending = q.pending \ {call}]
    IN  IF call[1] # awaited(q) THEN left
        ELSE IF ~ok THEN resume(left, FALSE)
        ELSE IF \E c \in left.pending : c[1] = call[1] THEN left
        ELSE resume(left, TRUE)

CacheSettle(r, group, ok) ==
    /\ <<group, "cache">> \in req[r].pending
    /\ IF ok THEN NoFault ELSE Fault
    /\ req' = [req EXCEPT ![r] = settle(req[r], <<group, "cache">>, ok)]
    /\ LET q == req[r]
       IN  /\ cacheDevices' = IF ok /\ group = "device"
                              THEN cacheDevices \cup {q.device.device_id} ELSE cacheDevices
           /\ cacheEvents' = IF ok /\ group = "event"
                             THEN [cacheEvents EXCEPT ![q.event.device_id] = q.event]
                             ELSE cacheEvents
           /\ cacheTelemetry' = IF ok /\ group = "telemetry"
                                THEN [cacheTelemetry EXCEPT ![q.event.device_id] =
                                                              q.event.telemetry]
                                ELSE cacheTelemetry
    /\ UNCHANGED <<storeVars, streamVars, batch, deviceVars, harnessVars>>

StreamSettle(r, group, ok) ==
    /\ <<group, "stream">> \in req[r].pending
    /\ IF ok THEN NoFault ELSE Fault
    /\ req' = [req EXCEPT ![r] = settle(req[r], <<group, "stream">>, ok)]
    /\ LET q == req[r]
       IN  /\ streamDevice' = IF ok /\ group = "device"
                              THEN Append(streamDevice, q.device) ELSE streamDevice
           /\ streamEvent' = IF ok /\ group = "event"
                             THEN Append(streamEvent, q.event) ELSE streamEvent
           /\ streamTelemetry' = IF ok /\ group = "telemetry"
                                 THEN Append(streamTelemetry, q.event.telemetry)
                                 ELSE streamTelemetry
    /\ UNCHANGED <<storeVars, cacheVars, streamError, batch, deviceVars, harnessVars>>

\* lines 318-323: fail() awaits stream.writeEventError after the response is sent;
\* when that throws, the rejection is nobody's
FailAudit(r) ==
    /\ req[r].pc = "failAudit"
    /\ LET q == req[r]
       IN  \/ /\ NoFault
              /\ streamError' = Append(streamError, errorRecord(q, q.message))
              /\ req' = [req EXCEPT ![r] = [q EXCEPT !.pc = "done"]]
           \/ /\ Fault
              /\ streamError' = streamError
              /\ req' = [req EXCEPT ![r] = [q EXCEPT !.pc = "done"]]
    /\ UNCHANGED <<storeVars, cacheVars, streamDevice, streamEvent, streamTelemetry, batch, deviceVars, harnessVars>>

Groups == {"device", "event", "telemetry"}

submitVehicleEvent(r) ==
    \/ ReadDevice(r)
    \/ CacheReadDevice(r)
    \/ AuditFailure(r)
    \/ WriteTelemetry(r)
    \/ WriteEvent(r)
    \/ \E group \in Groups, ok \in BOOLEAN : CacheSettle(r, group, ok)
    \/ \E group \in Groups, ok \in BOOLEAN : StreamSettle(r, group, ok)
    \/ FailAudit(r)

-----------------------------------------------------------------------------
(* request-handlers.ts: registerVehicle, as far as the registry goes: the  *)
(* device is written to the store, then to cache and stream, whose         *)
(* failures are tolerated; a duplicate leaves everything as it was.        *)

RegisterVehicle(device) ==
    /\ ~\E d \in dbDevices : d.device_id = device.device_id
    /\ dbDevices' = dbDevices \cup {device}
    /\ \E cacheOk \in BOOLEAN, streamOk \in BOOLEAN :
         /\ LET failed == (IF cacheOk THEN 0 ELSE 1) + (IF streamOk THEN 0 ELSE 1)
            IN  faults + failed <= MaxFaults /\ faults' = faults + failed
         /\ cacheDevices' = IF cacheOk THEN cacheDevices \cup {device.device_id}
                            ELSE cacheDevices
         /\ streamDevice' = IF streamOk THEN Append(streamDevice, device) ELSE streamDevice
    /\ UNCHANGED <<dbEvents, dbTelemetry, cacheEvents, cacheTelemetry, streamEvent,
                   streamTelemetry, streamError, req, batch, deviceVars, harnessVars>>

-----------------------------------------------------------------------------
(* request-handlers.ts: registerVehicle and updateVehicle, step by step *)

\* the bodies of the registerVehicle requests: modality defaults to micromobility
RegBody(device_id, modality) == [device_id |-> device_id, modality |-> modality]

RegBodies ==
    {RegBody("d1", UNDEFINED), RegBody("d2", "taxi"), RegBody("junk", UNDEFINED),
     RegBody(UNDEFINED, "taxi")}

\* lines 75-104: the device registerVehicle builds, with status 'removed'
buildDevice(body) ==
    [DeviceRecord(body.device_id,
                  IF body.modality = UNDEFINED THEN "micromobility" ELSE body.modality)
       EXCEPT !.status = "removed"]

\* badDevice(device): the failure, or null for a device that can be registered
badDevice(device) ==
    IF device.device_id = UNDEFINED THEN Failure("missing_param", "missing device_id")
    ELSE IF ~isUUID(device.device_id) THEN Failure("bad_param", "device_id is not a UUID")
    ELSE NoFailure

\* db.writeDevice(device) fails 'duplicate' for a device_id the store holds
dbHasDevice(device_id) == \E d \in dbDevices : d.device_id = device_id

DeviceSend(q, status, error) ==
    [q EXCEPT !.res = [sent |-> q.res.sent + 1, status |-> status, error |-> error],
              !.pc = "done"]

\* lines 66-142: the request is received and its device built; badDevice rejects it
\* (400), or db.writeDevice throws (409 for a duplicate, else 500), or the device is
\* stored and written to cache and stream
RegWriteDevice(g) ==
    /\ reg[g].pc = "idle"
    /\ \A q \in RegRequests : q < g => reg[q].pc # "idle"
    /\ \E body \in RegBodies :
         LET device == buildDevice(body)
             q == [IdleDeviceRequest EXCEPT !.provider_id = PROVIDER, !.device = device]
         IN  \/ /\ badDevice(device) # NoFailure
                /\ NoFault
                /\ dbDevices' = dbDevices
                /\ reg' = [reg EXCEPT ![g] = DeviceSend(q, 400, badDevice(device).error)]
             \/ /\ badDevice(device) = NoFailure
                /\ dbHasDevice(device.device_id)
                /\ NoFault
                /\ dbDevices' = dbDevices
                /\ reg' = [reg EXCEPT ![g] = DeviceSend(q, 409, "already_registered")]
             \/ /\ badDevice(device) = NoFailure
                /\ Fault
                /\ dbDevices' = dbDevices
                /\ reg' = [reg EXCEPT ![g] = DeviceSend(q, 500, "server_error")]
             \/ /\ badDevice(device) = NoFailure
                /\ ~dbHasDevice(device.device_id)
                /\ NoFault
                /\ dbDevices' = dbDevices \cup {device}
                /\ reg' = [reg EXCEPT ![g] = [q EXCEPT !.wrote = TRUE,
                                                       !.pending = {"cache", "stream"},
                                                       !.pc = "fanout"]]
    /\ UNCHANGED <<dbEvents, dbTelemetry, cacheVars, streamVars, req, batch, upd, harnessVars>>

\* the device fan-out awaited without its own try/catch: a rejection is answered 500
deviceSettle_fanout_fatal(q, call, ok) ==
    LET left == [q EXCEPT !.pending = q.pending \ {call},
                          !.settled = IF ok THEN q.settled \cup {call} ELSE q.settled]
    IN  IF q.pc # "fanout" THEN left
        ELSE IF ~ok THEN DeviceSend(left, 500, "server_error")
        ELSE IF left.pending = {} THEN DeviceSend(left, 201, "")
        ELSE left

\* lines 122-128 and 225-231: Promise.all of the two device writes resolves when both
\* did and rejects at the first rejection; either way the handler answers 201; a
\* write still in flight settles later, unawaited
deviceSettle(q, call, ok) ==
    LET left == [q EXCEPT !.pending = q.pending \ {call},
                          !.settled = IF ok THEN q.settled \cup {call} ELSE q.settled]
    IN  IF q.pc # "fanout" THEN left
        ELSE IF ~ok \/ left.pending = {} THEN DeviceSend(left, 201, "")
        ELSE left

RegCacheSettle(g, ok) ==
    /\ "cache" \in reg[g].pending
    /\ IF ok THEN NoFault ELSE Fault
    /\ reg' = [reg EXCEPT ![g] = deviceSettle(reg[g], "cache", ok)]
    /\ cacheDevices' = IF ok THEN cacheDevices \cup {reg[g].device.device_id} ELSE cacheDevices
    /\ UNCHANGED <<storeVars, cacheEvents, cacheTelemetry, streamVars, req, batch, upd,
                   harnessVars>>

RegStreamSettle(g, ok) ==
    /\ "stream" \in reg[g].pending
    /\ IF ok THEN NoFault ELSE Fault
    /\ reg' = [reg EXCEPT ![g] = deviceSettle(reg[g], "stream", ok)]
    /\ streamDevice' = IF ok THEN Append(streamDevice, reg[g].device) ELSE streamDevice
    /\ UNCHANGED <<storeVars, cacheVars, streamEvent, streamTelemetry, streamError, req, batch,
                   upd, harnessVars>>

registerVehicle(g) ==
    \/ RegWriteDevice(g)
    \/ \E ok \in BOOLEAN : RegCacheSettle(g, ok)
    \/ \E ok \in BOOLEAN : RegStreamSettle(g, ok)

\* the updateVehicle requests: the caller's provider, the device and the new vehicle_id
UpdInputs ==
    {[provider_id |-> provider_id, device_id |-> device_id, vehicle_id |-> vehicle_id] :
       provider_id \in {PROVIDER, "p2"}, device_id \in {"d1", "d2"}, vehicle_id \in {"v2"}}

\* updateVehicleFail without its first two branches: 500 unless the provider is absent
updateVehicleFail_server_error(q, provider_id, error) ==
    IF provider_id = UNDEFINED THEN DeviceSend(q, 404, "")
    ELSE DeviceSend(q, 500, "server_error")

\* lines 197-209: updateVehicleFail
updateVehicleFail(q, provider_id, error) ==
    IF error = "not found" THEN DeviceSend(q, 404, "")
    ELSE IF error = "invalid" THEN DeviceSend(q, 400, "bad_param")
    ELSE IF provider_id = UNDEFINED THEN DeviceSend(q, 404, "")
    ELSE DeviceSend(q, 500, "server_error")

\* lines 212-226 and 236-238: the request is received and db.readDevice returns the
\* provider's device or throws
UpdReadDevice(u) ==
    /\ upd[u].pc = "idle"
    /\ \A q \in UpdRequests : q < u => upd[q].pc # "idle"
    /\ \E input \in UpdInputs :
         LET q == [IdleDeviceRequest EXCEPT !.provider_id = input.provider_id,
                                            !.device = [NoDevice EXCEPT
                                                          !.device_id = input.device_id],
                                            !.update = input.vehicle_id]
             tempDevice == dbReadDevice(input.device_id, input.provider_id)
         IN  \/ /\ tempDevice # NoDevice
                /\ NoFault
                /\ upd' = [upd EXCEPT ![u] =
                     IF tempDevice.provider_id # input.provider_id
                     THEN updateVehicleFail(q, input.provider_id, "not found")
                     ELSE [q EXCEPT !.device = tempDevice, !.pc = "updateDevice"]]
             \/ /\ tempDevice = NoDevice
                /\ NoFault
                /\ upd' = [upd EXCEPT ![u] =
                             updateVehicleFail(q, input.provider_id, "not found")]
             \/ /\ Fault
                /\ upd' = [upd EXCEPT ![u] =
                             updateVehicleFail(q, input.provider_id, "not found")]
    /\ UNCHANGED <<storeVars, cacheVars, streamVars, req, batch, reg, harnessVars>>

\* db.updateDevice(device_id, provider_id, update): the stored device with the
\* fields of the update
dbUpdateDevice(device_id, provider_id, vehicle_id) ==
    [dbReadDevice(device_id, provider_id) EXCEPT !.vehicle_id = vehicle_id]

\* lines 227-233 and 236-238: db.updateDevice returns the updated device, which goes
\* to cache and stream, or throws
UpdUpdateDevice(u) ==
    /\ upd[u].pc = "updateDevice"
    /\ LET q == upd[u]
           device == dbUpdateDevice(q.device.device_id, q.provider_id, q.update)
       IN  \/ /\ NoFault
              /\ dbDevices' = (dbDevices \ {dbReadDevice(q.device.device_id, q.provider_id)})
                                \cup {device}
              /\ upd' = [upd EXCEPT ![u] = [q EXCEPT !.device = device,
                                                     !.wrote = TRUE,
                                                     !.pending = {"cache", "stream"},
                                                     !.pc = "fanout"]]
           \/ /\ Fault
              /\ dbDevices' = dbDevices
              /\ upd' = [upd EXCEPT ![u] = updateVehicleFail(q, q.provider_id, "not found")]
    /\ UNCHANGED <<dbEvents, dbTelemetry, cacheVars, streamVars, req, batch, reg, harnessVars>>

UpdCacheSettle(u, ok) ==
    /\ "cache" \in upd[u].pending
    /\ IF ok THEN NoFault ELSE Fault
    /\ upd' = [upd EXCEPT ![u] = deviceSettle(upd[u], "cache", ok)]
    /\ cacheDevices' = IF ok THEN cacheDevices \cup {upd[u].device.device_id} ELSE cacheDevices
    /\ UNCHANGED <<storeVars, cacheEvents, cacheTelemetry, streamVars, req, batch, reg,
                   harnessVars>>

UpdStreamSettle(u, ok) ==
    /\ "stream" \in upd[u].pending
    /\ IF ok THEN NoFault ELSE Fault
    /\ upd' = [upd EXCEPT ![u] = deviceSettle(upd[u], "stream", ok)]
    /\ streamDevice' = IF ok THEN Append(streamDevice, upd[u].device) ELSE streamDevice
    /\ UNCHANGED <<storeVars, cacheVars, streamEvent, streamTelemetry, streamError, req, batch,
                   reg, harnessVars>>

updateVehicle(u) ==
    \/ UpdReadDevice(u)
    \/ UpdUpdateDevice(u)
    \/ \E ok \in BOOLEAN : UpdCacheSettle(u, ok)
    \/ \E ok \in BOOLEAN : UpdStreamSettle(u, ok)

NextDevice ==
    \/ \E g \in RegRequests : registerVehicle(g)
    \/ \E u \in UpdRequests : updateVehicle(u)

-----------------------------------------------------------------------------
(* request-handlers.ts: submitVehicleTelemetry, and utils.ts: writeTelemetry *)

\* db.readDeviceIds(provider_id): the device_ids of the provider's devices
dbReadDeviceIds(provider_id) == {d.device_id : d \in {e \in dbDevices : e.provider_id = provider_id}}

\* the elements of a sequence
Elements(seq) == {seq[i] : i \in 1..Len(seq)}

\* lines 435-450: the telemetry built from an item; accuracy is the item's gps.hdop
buildTelemetry(item) ==
    [k |-> "object", device_id |-> item.device_id, provider_id |-> PROVIDER,
     timestamp |-> item.timestamp, charge |-> item.charge,
     gps |-> [k |-> "object", lat |-> item.gps.lat, lng |-> item.gps.lng,
              altitude |-> item.gps.altitude, accuracy |-> item.gps.hdop,
              speed |-> item.gps.speed, satellites |-> item.gps.satellites]]

DEVICE_NOT_FOUND == "device_id not found"

\* lines 452-463: the reason an item fails for, "" when it is valid
itemReason(telemetry, deviceIds) ==
    IF badTelemetry(telemetry) # NoFailure THEN badTelemetry(telemetry).error_description
    ELSE IF telemetry.device_id \notin deviceIds THEN DEVICE_NOT_FOUND
    ELSE ""

\* lines 430-466: data.reduce, splitting the items into valid and failures
reduceData(data, deviceIds) ==
    LET telemetry == [i \in 1..Len(data) |-> buildTelemetry(data[i])]
        good(t) == itemReason(t, deviceIds) = ""
        bad(t) == itemReason(t, deviceIds) # ""
        failing == SelectSeq(telemetry, bad)
    IN  [valid |-> SelectSeq(telemetry, good),
         failures |-> [i \in 1..Len(failing) |->
                         [telemetry |-> failing[i],
                          reason |-> itemReason(failing[i], deviceIds)]]]

\* lines 441-447: gps.lat of an item without gps throws a TypeError
reduceThrows(data) == \E i \in 1..Len(data) : data[i].gps.k # "object"

BatchSend(res, status, error, description) ==
    [res EXCEPT !.sent = res.sent + 1, !.status = status, !.error = error,
                !.error_description = description]

\* lines 486-502: 400 invalid_data, the failures with their reasons as details
invalidData(q) ==
    [q EXCEPT !.res = [BatchSend(q.res, 400, "invalid_data",
                                 "None of the provided data was valid")
                         EXCEPT !.error_details = q.failures],
              !.pc = "done"]

\* the catch of the handler ending the request without a response
batchServerError_unanswered(q) == [q EXCEPT !.pc = "done"]

\* line 512: 500 for anything thrown but NotFoundError
batchServerError(q) ==
    [q EXCEPT !.res = BatchSend(q.res, 500, "server_error", ""), !.pc = "done"]

\* lines 480-493: the response once writeTelemetry returned its recorded rows
batchAnswer(q) ==
    IF q.recorded # {}
    THEN [q EXCEPT !.res = [BatchSend(q.res, 200, "", "")
                              EXCEPT !.success = Len(q.valid),
                                     !.total = Len(q.data.v),
                                     !.failures = [i \in 1..Len(q.failures) |->
                                                     [telemetry |-> q.failures[i].telemetry,
                                                      reason |-> UNDEFINED]]],
                   !.pc = "done"]
    ELSE invalidData(q)

\* lines 388-503: the request is received, the device ids are read from the store
\* (db.readDevice for a single item with a UUID, else db.readDeviceIds), the items are
\* split into valid and failures, and a batch without a valid item is answered 400
ReadDeviceIds(b) ==
    /\ batch[b].pc = "idle"
    /\ \A q \in BatchRequests : q < b => batch[q].pc # "idle"
    /\ \E data \in BatchInputs :
         LET q == [IdleBatch EXCEPT !.data = data,
                                    !.after = {p \in BatchRequests : batch[p].res.sent > 0}]
             single == Len(data.v) = 1 /\ isUUID(data.v[1].device_id)
             deviceIds == IF single
                          THEN {dbReadDevice(data.v[1].device_id, PROVIDER).device_id}
                          ELSE dbReadDeviceIds(PROVIDER)
             split == reduceData(data.v, deviceIds)
             read == [q EXCEPT !.valid = split.valid, !.failures = split.failures]
         IN  \/ /\ data.k # "array"
                /\ NoFault
                /\ batch' = [batch EXCEPT ![b] =
                               [q EXCEPT !.res = BatchSend(q.res, 400, "bad_param",
                                                           "Missing data from post-body"),
                                         !.pc = "done"]]
             \/ /\ data.k = "array"
                /\ Fault
                /\ batch' = [batch EXCEPT ![b] = batchServerError(q)]
             \/ /\ data.k = "array"
                /\ NoFault
                /\ batch' = [batch EXCEPT ![b] =
                     IF single /\ dbReadDevice(data.v[1].device_id, PROVIDER) = NoDevice
                     THEN [q EXCEPT !.res = [BatchSend(q.res, 400, "unregistered",
                                                       "Some of the devices are unregistered")
                                               EXCEPT !.device_id = data.v[1].device_id],
                                    !.pc = "done"]
                     ELSE IF reduceThrows(data.v) THEN batchServerError(q)
                     ELSE IF Len(split.valid) = 0 THEN invalidData(read)
                     ELSE [read EXCEPT !.pc = "writeTelemetry"]]
    /\ UNCHANGED <<storeVars, cacheVars, streamVars, req, deviceVars, harnessVars>>

forwardedRows_all_valid(valid, recorded_telemetry) == Elements(valid)

\* utils.ts lines 439-440: cache.writeTelemetry and stream.writeTelemetry are called
\* with the rows db.writeTelemetry returned
forwardedRows(valid, recorded_telemetry) == recorded_telemetry

\* utils.ts lines 436-439: db.writeTelemetry returns the newly recorded rows, which
\* writeTelemetry hands to cache.writeTelemetry and stream.writeTelemetry
WriteBatch(b) ==
    /\ batch[b].pc = "writeTelemetry"
    /\ LET q == batch[b]
           recorded == dbNewTelemetry(Elements(q.valid))
       IN  \/ /\ NoFault
              /\ dbTelemetry' = dbTelemetry \cup recorded
              /\ batch' = [batch EXCEPT ![b] =
                             [q EXCEPT !.wrote = TRUE,
                                       !.before = dbTelemetry,
                                       !.recorded = recorded,
                                       !.forwarded = forwardedRows(q.valid, recorded),
                                       !.pending = {"cache", "stream"},
                                       !.pc = "fanout"]]
           \/ /\ Fault
              /\ dbTelemetry' = dbTelemetry
              /\ batch' = [batch EXCEPT ![b] = batchServerError(q)]
    /\ UNCHANGED <<dbDevices, dbEvents, cacheVars, streamVars, req, deviceVars, harnessVars>>

batchSettle_fanout_fatal(q, call, ok) ==
    LET left == [q EXCEPT !.pending = q.pending \ {call},
                          !.settled = IF ok THEN q.settled \cup {call} ELSE q.settled]
    IN  IF q.pc # "fanout" THEN left
        ELSE IF ~ok THEN batchServerError(left)
        ELSE IF left.pending = {} THEN batchAnswer(left)
        ELSE left

\* utils.ts lines 438-443 and lines 469-493: Promise.all resolves when both calls did
\* and rejects at the first rejection; either way writeTelemetry returns the recorded
\* rows and the handler answers; a call still in flight settles later, unawaited
batchSettle(q, call, ok) ==
    LET left == [q EXCEPT !.pending = q.pending \ {call},
                          !.settled = IF ok THEN q.settled \cup {call} ELSE q.settled]
    IN  IF q.pc # "fanout" THEN left
        ELSE IF ~ok \/ left.pending = {} THEN batchAnswer(left)
        ELSE left

\* the rows in the order of their timestamps
RECURSIVE RowsInOrder(_)
RowsInOrder(rows) ==
    IF rows = {} THEN << >>
    ELSE LET first == CHOOSE t \in rows : \A u \in rows : ~LessThan(u.timestamp, t.timestamp.n)
         IN  <<first>> \o RowsInOrder(rows \ {first})

\* cache.writeTelemetry(rows): the cache keeps each device's last row
cacheLatest(rows, device_id) ==
    LET mine == {t \in rows : t.device_id = device_id}
    IN  IF mine = {} THEN cacheTelemetry[device_id]
        ELSE RowsInOrder(mine)[Cardinality(mine)]

BatchCacheSettle(b, ok) ==
    /\ "cache" \in batch[b].pending
    /\ IF ok THEN NoFault ELSE Fault
    /\ batch' = [batch EXCEPT ![b] = batchSettle(batch[b], "cache", ok)]
    /\ cacheTelemetry' = IF ok
                         THEN [d \in DeviceIds |-> cacheLatest(batch[b].forwarded, d)]
                         ELSE cacheTelemetry
    /\ UNCHANGED <<storeVars, cacheDevices, cacheEvents, streamVars, req, deviceVars, harnessVars>>

BatchStreamSettle(b, ok) ==
    /\ "stream" \in batch[b].pending
    /\ IF ok THEN NoFault ELSE Fault
    /\ batch' = [batch EXCEPT ![b] = batchSettle(batch[b], "stream", ok)]
    /\ streamTelemetry' = IF ok THEN streamTelemetry \o RowsInOrder(batch[b].forwarded)
                          ELSE streamTelemetry
    /\ UNCHANGED <<storeVars, cacheVars, streamDevice, streamEvent, streamError, req,
                   deviceVars, harnessVars>>

submitVehicleTelemetry(b) ==
    \/ ReadDeviceIds(b)
    \/ WriteBatch(b)
    \/ \E ok \in BOOLEAN : BatchCacheSettle(b, ok)
    \/ \E ok \in BOOLEAN : BatchStreamSettle(b, ok)

NextBatch ==
    \/ \E b \in BatchRequests : submitVehicleTelemetry(b)
    \/ \E device \in Registrations : RegisterVehicle(device)

-----------------------------------------------------------------------------
(* The Provider API: its requests and what its middleware makes of them *)

\* a request path is its segments: <<"test", "seed">> is '/test/seed'
ApiPaths == {<<"health">>, <<"trips">>, <<"status_changes">>,
             <<"test", "initialize">>, <<"test", "seed">>}

\* req.path.includes('/health'): some segment is 'health'
pathIncludesHealth(path) == Includes(path, "health")

\* req.path.includes('/test/'): some segment but the last is 'test'
pathIncludesTest(path) == \E i \in 1..(Len(path) - 1) : path[i] = "test"

\* a scope is the access tokens it lists, or undefined
ApiScopes == {UNDEFINED, << >>, <<"test:all">>, <<"trips:read">>, <<"trips:read", "test:all">>}

\* (scope || '').includes('test:all')
scopeIncludesTestAll(scope) == scope # UNDEFINED /\ Includes(scope, "test:all")

API_PROVIDER_UUID == "d1"

\* what the authorizer leaves in res.locals.claims: null without credentials,
\* else the claims it decoded
NoClaims == [k |-> "null", provider_id |-> UNDEFINED, scope |-> UNDEFINED]

ApiClaims ==
    {NoClaims} \cup
    [k : {"object"}, provider_id : {UNDEFINED, "", "junk", API_PROVIDER_UUID}, scope : ApiScopes]

NoApiRequest == [path |-> << >>, claims |-> NoClaims]

ApiInputs == [path : ApiPaths, claims : ApiClaims]

NoApiOutcome ==
    [called |-> FALSE, sent |-> 0, status |-> 0, error |-> "", next |-> FALSE, handler |-> << >>]

ApiForbidden(error) ==
    [called |-> TRUE, sent |-> 1, status |-> 403, error |-> error, next |-> FALSE, handler |-> << >>]

ApiNext ==
    [called |-> TRUE, sent |-> 0, status |-> 0, error |-> "", next |-> TRUE, handler |-> << >>]

-----------------------------------------------------------------------------
(* Specification of the submission pipeline *)

Init ==
    /\ dbDevices = {}
    /\ dbEvents = {}
    /\ dbTelemetry = {}
    /\ cacheDevices = {}
    /\ cacheEvents = [d \in DeviceIds |-> NoEvent]
    /\ cacheTelemetry = [d \in DeviceIds |-> NoTelemetry]
    /\ streamDevice = << >>
    /\ streamEvent = << >>
    /\ streamTelemetry = << >>
    /\ streamError = << >>
    /\ req = [r \in Requests |-> IdleRequest]
    /\ batch = [b \in BatchRequests |-> IdleBatch]
    /\ reg = [g \in RegRequests |-> IdleDeviceRequest]
    /\ upd = [u \in UpdRequests |-> IdleDeviceRequest]
    /\ faults = 0
    /\ telemetryIn = NoTelemetry
    /\ telemetryOut = NoFailure
    /\ eventIn = NoEventInput
    /\ eventOut = NoFailure
    /\ payloadIn = NoPayload
    /\ payloadGiven = NoPayload
    /\ compositeOut = NoComposite
    /\ apiIn = NoApiRequest
    /\ apiOut = NoApiOutcome

Next ==
    \/ \E r \in Requests : submitVehicleEvent(r)
    \/ \E device \in Registrations : RegisterVehicle(device)

Spec == Init /\ [][Next]_vars

\* runs in which every call of a received request eventually returns or throws: each
\* handler's next step is taken when it stays possible.  A run is of event
\* submissions or of telemetry batches, and a request is received when the one
\* before it has come to its end and its calls have settled.
Ended(q) == q.pc = "done" /\ q.pending = {}

EventStep(r) ==
    /\ \A b \in BatchRequests : batch[b].pc = "idle"
    /\ req[r].pc = "idle" => \A other \in Requests \ {r} : req[other].pc = "idle" \/ Ended(req[other])
    /\ submitVehicleEvent(r)

BatchStep(b) ==
    /\ \A r \in Requests : req[r].pc = "idle"
    /\ batch[b].pc = "idle"
         => \A other \in BatchRequests \ {b} : batch[other].pc = "idle" \/ Ended(batch[other])
    /\ submitVehicleTelemetry(b)

NextResponse ==
    \/ \E r \in Requests : EventStep(r)
    \/ \E b \in BatchRequests : BatchStep(b)
    \/ \E device \in Registrations : RegisterVehicle(device)

SpecResponse ==
    /\ Init
    /\ [][NextResponse]_vars
    /\ \A r \in Requests : WF_vars(EventStep(r))
    /\ \A b \in BatchRequests : WF_vars(BatchStep(b))

\* registerVehicle and updateVehicle, from the same initial state
SpecDevice == Init /\ [][NextDevice]_vars

\* the telemetry batches alone, from the same initial state
SpecBatch == Init /\ [][NextBatch]_vars

-----------------------------------------------------------------------------
(* Validator harness: badTelemetry applied to one telemetry drawn from the *)
(* inputs below                                                            *)

NotCalled == Failure("not called", "")

TelemetryInputs ==
    {NoTelemetry,
     TelemetryAt(1, NoGps),
     TelemetryAt(1, [NoGps EXCEPT !.k = "null"]),
     TelemetryAt(1, [NoGps EXCEPT !.k = "string"])}
    \cup
    {[k |-> "object", device_id |-> device_id, provider_id |-> PROVIDER,
      timestamp |-> timestamp, charge |-> charge,
      gps |-> [k |-> "object", lat |-> lat, lng |-> lng, altitude |-> altitude,
               accuracy |-> accuracy, speed |-> speed, satellites |-> satellites]] :
       device_id \in {"d1", "junk"},
       timestamp \in {Num(1), Num(0), Undefined},
       charge \in {Undefined, Num(0), Half(0), Half(1), Num(-1)},
       lat \in {Num(-91), Num(-90), Num(0), Half(0), Num(90), Half(90), NaN},
       lng \in {Num(-181), Num(-180), Num(0), Num(180), Half(180), Str},
       altitude \in {Undefined, Num(5), NaN},
       accuracy \in {Null, Half(5), Str},
       speed \in {Undefined, Num(0), NaN},
       satellites \in {Undefined, Null, Num(3), Num(-1), Half(2)}}

InitTelemetry ==
    /\ dbDevices = {}
    /\ dbEvents = {}
    /\ dbTelemetry = {}
    /\ cacheDevices = {}
    /\ cacheEvents = [d \in DeviceIds |-> NoEvent]
    /\ cacheTelemetry = [d \in DeviceIds |-> NoTelemetry]
    /\ streamDevice = << >>
    /\ streamEvent = << >>
    /\ streamTelemetry = << >>
    /\ streamError = << >>
    /\ req = [r \in Requests |-> IdleRequest]
    /\ batch = [b \in BatchRequests |-> IdleBatch]
    /\ reg = [g \in RegRequests |-> IdleDeviceRequest]
    /\ upd = [u \in UpdRequests |-> IdleDeviceRequest]
    /\ faults = 0
    /\ telemetryIn \in TelemetryInputs
    /\ telemetryOut = NotCalled
    /\ eventIn = NoEventInput
    /\ eventOut = NoFailure
    /\ payloadIn = NoPayload
    /\ payloadGiven = NoPayload
    /\ compositeOut = NoComposite
    /\ apiIn = NoApiRequest
    /\ apiOut = NoApiOutcome

CallBadTelemetry ==
    /\ telemetryOut = NotCalled
    /\ telemetryOut' = badTelemetry(telemetryIn)
    /\ UNCHANGED <<storeVars, cacheVars, streamVars, req, batch, deviceVars, faults, telemetryIn, eventIn,
                   eventOut, payloadIn, payloadGiven, compositeOut, apiIn, apiOut>>

NextTelemetry == CallBadTelemetry

SpecTelemetry == InitTelemetry /\ [][NextTelemetry]_vars

-----------------------------------------------------------------------------
(* Validator harness: badEvent applied to one device and one event drawn   *)
(* from the inputs below                                                   *)

EventTypeInputs ==
    {[k |-> "undefined", v |-> << >>], [k |-> "string", v |-> << >>]}
    \cup
    {[k |-> "array", v |-> v] :
       v \in {<< >>, <<"trip_start">>, <<"trip_end">>, <<"provider_drop_off">>,
              <<"battery_low">>, <<"trip_stop">>, <<"reservation_start">>,
              <<"passenger_cancellation">>, <<"bogus">>, <<"battery_low", "bogus">>,
              <<"battery_low", "trip_leave_jurisdiction">>,
              <<"provider_drop_off", "trip_start">>}}

EventInputs ==
    {[device |-> DeviceRecord("d1", modality),
      event |-> [device_id |-> "d1", provider_id |-> PROVIDER,
                 event_types |-> event_types, vehicle_state |-> vehicle_state,
                 trip_state |-> trip_state, telemetry |-> telemetry,
                 timestamp |-> timestamp, trip_id |-> trip_id,
                 telemetry_timestamp |-> telemetry.timestamp]] :
       modality \in MODALITIES \cup {"bogus"},
       event_types \in EventTypeInputs,
       vehicle_state \in {UNDEFINED, "available", "on_trip", "stopped", "bogus"},
       trip_state \in {NULL, "on_trip", "bogus"},
       telemetry \in {NoTelemetry,
                      [TelemetryAt(1, Gps(Num(34), Num(-118))) EXCEPT !.device_id = "d1"],
                      [TelemetryAt(1, Gps(Num(0), Num(-118))) EXCEPT !.device_id = "d1"],
                      [TelemetryAt(1, [NoGps EXCEPT !.k = "null"]) EXCEPT !.device_id = "d1"]},
       timestamp \in {Num(1), Num(0), Undefined},
       trip_id \in {UNDEFINED, "", "t1", "junk"}}

InitEvent ==
    /\ dbDevices = {}
    /\ dbEvents = {}
    /\ dbTelemetry = {}
    /\ cacheDevices = {}
    /\ cacheEvents = [d \in DeviceIds |-> NoEvent]
    /\ cacheTelemetry = [d \in DeviceIds |-> NoTelemetry]
    /\ streamDevice = << >>
    /\ streamEvent = << >>
    /\ streamTelemetry = << >>
    /\ streamError = << >>
    /\ req = [r \in Requests |-> IdleRequest]
    /\ batch = [b \in BatchRequests |-> IdleBatch]
    /\ reg = [g \in RegRequests |-> IdleDeviceRequest]
    /\ upd = [u \in UpdRequests |-> IdleDeviceRequest]
    /\ faults = 0
    /\ telemetryIn = NoTelemetry
    /\ telemetryOut = NoFailure
    /\ eventIn \in EventInputs
    /\ eventOut = NotCalled
    /\ payloadIn = NoPayload
    /\ payloadGiven = NoPayload
    /\ compositeOut = NoComposite
    /\ apiIn = NoApiRequest
    /\ apiOut = NoApiOutcome

CallBadEvent ==
    /\ eventOut = NotCalled
    /\ eventOut' = badEvent(eventIn.device, eventIn.event)
    /\ UNCHANGED <<storeVars, cacheVars, streamVars, req, batch, deviceVars, faults, telemetryIn,
                   telemetryOut, eventIn, payloadIn, payloadGiven, compositeOut, apiIn, apiOut>>

NextEvent == CallBadEvent

SpecEvent == InitEvent /\ [][NextEvent]_vars

-----------------------------------------------------------------------------
(* utils.ts: computeCompositeVehicleData *)

computeCompositeVehicleData_gps_always(payload) ==
    LET device == payload.device
        event == payload.event
        telemetry == payload.telemetry
    IN  [called |-> TRUE,
         device |-> device,
         prev_events |-> IF event.k = "object" THEN event.event_types
                         ELSE <<"decommissioned">>,
         updated |-> IF event.k = "object" THEN event.timestamp ELSE Undefined,
         state |-> IF event.k = "object" THEN event.vehicle_state ELSE "removed",
         gps |-> telemetry.gps]

\* lines 491-512: the device's fields, the state, prev_events and updated of the event
\* or the sentinels, and the gps of the telemetry when it is truthy
computeCompositeVehicleData(payload) ==
    LET device == payload.device
        event == payload.event
        telemetry == payload.telemetry
    IN  [called |-> TRUE,
         device |-> device,
         prev_events |-> IF event.k = "object" THEN event.event_types
                         ELSE <<"decommissioned">>,
         updated |-> IF event.k = "object" THEN event.timestamp ELSE Undefined,
         state |-> IF event.k = "object" THEN event.vehicle_state ELSE "removed",
         gps |-> IF telemetry.k = "object" /\ telemetry.gps.k = "object"
                 THEN telemetry.gps ELSE AbsentGps]

PayloadInputs ==
    {[device |-> DeviceRecord("d1", modality), event |-> event, telemetry |-> telemetry] :
       modality \in MODALITIES,
       event \in {PayloadEvent(k, << >>, UNDEFINED, Undefined) : k \in {"undefined", "null"}}
                 \cup {PayloadEvent("object", types, state, Num(ts)) :
                         types \in {<<"trip_start">>, <<"battery_low", "trip_end">>,
                                    <<"decommissioned">>},
                         state \in {"available", "on_trip", "removed"},
                         ts \in Timestamps},
       telemetry \in {PayloadTelemetry(k, AbsentGps) : k \in {"undefined", "null", "object"}}
                     \cup {PayloadTelemetry("object", PayloadGps("null", Undefined, Undefined)),
                           PayloadTelemetry("object", PayloadGps("object", Num(34), Num(-118))),
                           PayloadTelemetry("object", PayloadGps("object", Num(0), Num(0)))}}

InitComposite ==
    /\ dbDevices = {}
    /\ dbEvents = {}
    /\ dbTelemetry = {}
    /\ cacheDevices = {}
    /\ cacheEvents = [d \in DeviceIds |-> NoEvent]
    /\ cacheTelemetry = [d \in DeviceIds |-> NoTelemetry]
    /\ streamDevice = << >>
    /\ streamEvent = << >>
    /\ streamTelemetry = << >>
    /\ streamError = << >>
    /\ req = [r \in Requests |-> IdleRequest]
    /\ batch = [b \in BatchRequests |-> IdleBatch]
    /\ reg = [g \in RegRequests |-> IdleDeviceRequest]
    /\ upd = [u \in UpdRequests |-> IdleDeviceRequest]
    /\ faults = 0
    /\ telemetryIn = NoTelemetry
    /\ telemetryOut = NoFailure
    /\ eventIn = NoEventInput
    /\ eventOut = NoFailure
    /\ payloadIn \in PayloadInputs
    /\ payloadGiven = payloadIn
    /\ compositeOut = NoComposite
    /\ apiIn = NoApiRequest
    /\ apiOut = NoApiOutcome

\* the function assigns to the composite only: the payload is left as it was
CallComputeComposite ==
    /\ ~compositeOut.called
    /\ compositeOut' = computeCompositeVehicleData(payloadIn)
    /\ UNCHANGED <<storeVars, cacheVars, streamVars, req, batch, deviceVars, faults, telemetryIn,
                   telemetryOut, eventIn, eventOut, payloadIn, payloadGiven, apiIn, apiOut>>

NextComposite == CallComputeComposite

SpecComposite == InitComposite /\ [][NextComposite]_vars

-----------------------------------------------------------------------------
(* The Provider API: its provider_id middleware and the routes behind it *)

\* the middleware: outside '/health' it destructures the claims, which throws when
\* they are null; the catch logs the error and falls through to next()
providerMiddleware(request) ==
    IF pathIncludesHealth(request.path) THEN ApiNext
    ELSE IF request.claims.k # "object" THEN ApiNext
    ELSE IF pathIncludesTest(request.path) /\ ~scopeIncludesTestAll(request.claims.scope)
        THEN ApiForbidden("no test access")
    ELSE IF ~Truthy(request.claims.provider_id) THEN ApiForbidden("missing_provider_id")
    ELSE IF ~isUUID(request.claims.provider_id) THEN ApiForbidden("invalid_provider_id")
    ELSE ApiNext

InitApi ==
    /\ dbDevices = [d \in DeviceIds |-> NoDevice]
    /\ dbEvents = {}
    /\ dbTelemetry = {}
    /\ cacheDevices = {}
    /\ cacheEvents = [d \in DeviceIds |-> NoEvent]
    /\ cacheTelemetry = [d \in DeviceIds |-> NoTelemetry]
    /\ streamDevice = << >>
    /\ streamEvent = << >>
    /\ streamTelemetry = << >>
    /\ streamError = << >>
    /\ req = [r \in Requests |-> IdleRequest]
    /\ batch = [b \in BatchRequests |-> IdleBatch]
    /\ reg = [g \in RegRequests |-> IdleDeviceRequest]
    /\ upd = [u \in UpdRequests |-> IdleDeviceRequest]
    /\ faults = 0
    /\ telemetryIn = NoTelemetry
    /\ telemetryOut = NoFailure
    /\ eventIn = NoEventInput
    /\ eventOut = NoFailure
    /\ payloadIn = NoPayload
    /\ payloadGiven = NoPayload
    /\ compositeOut = NoComposite
    /\ apiIn \in ApiInputs
    /\ apiOut = NoApiOutcome

\* the request passes through the middleware
CallProviderMiddleware ==
    /\ ~apiOut.called
    /\ apiOut' = providerMiddleware(apiIn)
    /\ UNCHANGED <<storeVars, cacheVars, streamVars, req, batch, deviceVars, faults, telemetryIn,
                   telemetryOut, eventIn, eventOut, payloadIn, payloadGiven, compositeOut, apiIn>>

\* next() hands the request to the handler of its route
RouteHandler ==
    /\ apiOut.called /\ apiOut.next
    /\ apiOut.handler = << >>
    /\ apiOut' = [apiOut EXCEPT !.handler = apiIn.path]
    /\ UNCHANGED <<storeVars, cacheVars, streamVars, req, batch, deviceVars, faults, telemetryIn,
                   telemetryOut, eventIn, eventOut, payloadIn, payloadGiven, compositeOut, apiIn>>

NextApi == CallProviderMiddleware \/ RouteHandler

SpecApi == InitApi /\ [][NextApi]_vars

-----------------------------------------------------------------------------
(* Properties of submitVehicleEvent *)

Responded(r) == req[r].res.sent > 0

\* request r answered 201 with the submitted device_id and the event's vehicle_state
Answered201(r) ==
    /\ req[r].res.status = 201
    /\ req[r].res.device_id = req[r].device_id
    /\ req[r].res.state = req[r].body.vehicle_state

\* request r was answered the rejection fail() sends for a duplicate
AnsweredDuplicate(r) ==
    /\ req[r].res.status = 400
    /\ req[r].res.error_description = DUPLICATE_DESCRIPTION

\* this step is one of request r's own
StepOf(r) == req'[r] # req[r]

\* C1: a request is answered 201 with {device_id, state: event.vehicle_state} if and
\* only if its db.writeEvent succeeded; every other answer is an error status.
C1_Created_iff_event_written ==
    \A r \in Requests :
        Responded(r) =>
            /\ Answered201(r) <=> "event" \in req[r].wrote
            /\ "event" \notin req[r].wrote => req[r].res.status \in {400, 500}
            /\ req[r].res.status = 201 => Answered201(r)

C1_Witness ==
    \E r \in Requests : Responded(r) /\ Answered201(r) /\ req[r].event \in dbEvents

\* C2: once db.writeEvent succeeded, failures of the cache and stream writes leave the
\* answer 201 {device_id, state} and the event in the store of record.
C2_Fanout_failure_tolerated ==
    \A r \in Requests :
        "event" \in req[r].wrote =>
            /\ req[r].event \in dbEvents
            /\ req[r].pc \in {"awaitEvent", "awaitTelemetry", "done"}
            /\ Responded(r) => Answered201(r)
            /\ req[r].pc = "done" => Responded(r)

\* both the cache write and the stream write of the event failed, and 201 was sent
C2_Witness ==
    \E r \in Requests :
        /\ "event" \in req[r].wrote
        /\ req[r].pc = "done" /\ req[r].pending = {}
        /\ Answered201(r)
        /\ dbEvents = {req[r].event}
        /\ streamEvent = << >>
        /\ cacheEvents[req[r].device_id] = NoEvent

\* request r repeats, after its answer, a submission that was answered 201
SecondSubmission(r) ==
    \E first \in req[r].after :
        /\ req[first].res.status = 201
        /\ req[first].device_id = req[r].device_id
        /\ req[first].body = req[r].body

\* no call of the store failed for request r but for the key being taken
NoStoreError(r) == req[r].message # "other"

\* C3 as stated: the second submission of an event is answered the duplicate rejection
\* (400) and leaves the store of record, the cache and the device, event and
\* telemetry streams as the first left them.
C3_Second_submission_changes_nothing ==
    /\ [](\A r \in Requests :
            SecondSubmission(r) /\ Responded(r) /\ NoStoreError(r) => AnsweredDuplicate(r))
    /\ [][\A r \in Requests :
            StepOf(r) /\ SecondSubmission(r)' /\ NoStoreError(r)' =>
                UNCHANGED <<storeVars, cacheVars, streamDevice, streamEvent, streamTelemetry>>]_vars

\* C3 as amended: the second submission is answered the duplicate rejection (400) and
\* leaves the store of record, the cached events and telemetry and the event and
\* telemetry streams as they were; it may still re-seed the device into the cache
\* and the device stream when its read of the cache fails.
C3_Second_submission_keeps_records ==
    /\ [](\A r \in Requests :
            SecondSubmission(r) /\ Responded(r) /\ NoStoreError(r) => AnsweredDuplicate(r))
    /\ [][\A r \in Requests :
            StepOf(r) /\ SecondSubmission(r)' /\ NoStoreError(r)' =>
                UNCHANGED <<storeVars, cacheEvents, cacheTelemetry, streamEvent, streamTelemetry>>]_vars

C3_Witness ==
    \E r \in Requests :
        /\ SecondSubmission(r) /\ AnsweredDuplicate(r) /\ req[r].pc = "done"
        /\ req[r].body.telemetry.k = "object"

\* C4: a uniqueness violation is answered 400 with error `duplicate`, an unknown
\* device 400 `unregistered`, any other failure of the write 500 `server_error`.
C4_Duplicate_error_code ==
    \A r \in Requests :
        Responded(r) =>
            /\ req[r].message = "duplicate" =>
                 req[r].res.status = 400 /\ req[r].res.error = "duplicate"
            /\ req[r].message = "not found" =>
                 req[r].res.status = 400 /\ req[r].res.error = "unregistered"
            /\ req[r].message = "other" =>
                 req[r].res.status = 500 /\ req[r].res.error = "server_error"

\* the two requests overlap: neither was received after the other's answer
Overlap(r1, r2) == r1 \notin req[r2].after /\ r2 \notin req[r1].after

\* db.writeEvent decided request r: it was answered 201 or the duplicate rejection
DecidedByStore(r) ==
    Responded(r) /\ req[r].failure = NoFailure /\ req[r].message \in {"", "duplicate"}

SameKey(r1, r2) ==
    /\ req[r1].event.device_id = req[r2].event.device_id
    /\ req[r1].event.timestamp = req[r2].event.timestamp

\* C5: of two overlapping requests for one (device_id, timestamp) that both come to
\* db.writeEvent, exactly one is answered 201 and the other the duplicate rejection,
\* and the store of record holds exactly one event for the key.
C5_Concurrent_same_key ==
    \A r1, r2 \in Requests :
        /\ r1 # r2 /\ Overlap(r1, r2) /\ SameKey(r1, r2)
        /\ DecidedByStore(r1) /\ DecidedByStore(r2)
        => /\ Answered201(r1) # Answered201(r2)
           /\ Answered201(r1) => AnsweredDuplicate(r2)
           /\ Answered201(r2) => AnsweredDuplicate(r1)
           /\ Cardinality({e \in dbEvents : /\ e.device_id = req[r1].event.device_id
                                            /\ e.timestamp = req[r1].event.timestamp}) = 1

C5_Witness ==
    \E r1, r2 \in Requests :
        /\ r1 # r2 /\ Overlap(r1, r2) /\ SameKey(r1, r2)
        /\ Answered201(r1) /\ AnsweredDuplicate(r2)
        /\ req[r1].body # req[r2].body

\* C6: a request answered with an error has written no record to the store of
\* record, neither the event nor its embedded telemetry.
C6_Error_means_nothing_stored ==
    \A r \in Requests :
        Responded(r) /\ req[r].res.status # 201 => req[r].wrote = {}

\* C7: a submission a validator rejects reaches neither db.writeTelemetry nor
\* db.writeEvent and has written nothing to the store of record.
C7_Rejected_never_written ==
    \A r \in Requests :
        req[r].failure # NoFailure =>
            /\ req[r].wrote = {}
            /\ req[r].pc \in {"auditFailure", "failAudit", "done"}
            /\ req[r].pending \subseteq {<<"device", "cache">>, <<"device", "stream">>}

C7_Witness ==
    \E r \in Requests :
        /\ req[r].failure.error = "bad_param"
        /\ req[r].body.telemetry.k = "object"
        /\ req[r].pc = "done"

\* C8: whenever a validator rejects the event, whatever the stream and cache calls
\* do, the caller is answered 400 with that validator's error.
C8_Rejection_always_400 ==
    \A r \in Requests :
        Responded(r) /\ req[r].failure # NoFailure =>
            /\ req[r].res.status = 400
            /\ req[r].res.error = req[r].failure.error
            /\ req[r].res.error_description = req[r].failure.error_description

\* db.readDevice found no device for request r
NotFound(r) == req[r].message = "not found"

\* C9 as stated: when db.readDevice finds no device the request is answered 400
\* `unregistered` and writes nothing to the store of record, the cache or the stream.
C9_Unregistered_writes_nothing ==
    /\ [](\A r \in Requests :
            NotFound(r) => req[r].res.status = 400 /\ req[r].res.error = "unregistered")
    /\ [][\A r \in Requests :
            StepOf(r) /\ NotFound(r)' => UNCHANGED <<storeVars, cacheVars, streamVars>>]_vars

\* C9 as amended: when db.readDevice finds no device the request is answered 400
\* `unregistered` and writes nothing to the store of record, the cache or the
\* device, event and telemetry streams; fail() still sends a writeEventError
\* record to the stream.
C9_Unregistered_writes_no_record ==
    /\ [](\A r \in Requests :
            NotFound(r) => /\ req[r].res.status = 400 /\ req[r].res.error = "unregistered"
                           /\ req[r].wrote = {} /\ req[r].pending = {}
                           /\ req[r].pc \in {"failAudit", "done"})
    /\ [][\A r \in Requests :
            StepOf(r) /\ NotFound(r)' =>
                UNCHANGED <<storeVars, cacheVars, streamDevice, streamEvent, streamTelemetry>>]_vars

C9_Witness ==
    \E r \in Requests :
        /\ NotFound(r) /\ req[r].pc = "done"
        /\ Len(streamError) > 0
        /\ dbDevices # {}

-----------------------------------------------------------------------------
(* Properties of badTelemetry *)

\* the data model's well-formedness of the optional fields: altitude, accuracy and
\* speed finite floats, satellites a non-negative integer, charge a percentage
OptionalFieldsWellFormed(t) ==
    /\ Present(t.gps.altitude) => isFloat(t.gps.altitude)
    /\ Present(t.gps.accuracy) => isFloat(t.gps.accuracy)
    /\ Present(t.gps.speed) => isFloat(t.gps.speed)
    /\ Present(t.gps.satellites) =>
         NumberIsInteger(t.gps.satellites) /\ ~LessThan(t.gps.satellites, 0)
    /\ Present(t.charge) => isPct(t.charge)

InRange(v, low, high) ==
    v.k = "number" /\ ~LessThan(v, low) /\ ~GreaterThan(v, high) /\ ~IsZero(v)

\* C10: badTelemetry(t) returns null if and only if lat is in [-90, 90] and not 0, lng
\* is in [-180, 180] and not 0, device_id is a UUID, timestamp is a valid millisecond
\* timestamp and every present optional numeric field is well-formed.
C10_Null_iff_well_formed ==
    telemetryOut # NotCalled =>
        (telemetryOut = NoFailure <=>
            /\ telemetryIn.k = "object"
            /\ telemetryIn.gps.k = "object"
            /\ InRange(telemetryIn.gps.lat, -90, 90)
            /\ InRange(telemetryIn.gps.lng, -180, 180)
            /\ isUUID(telemetryIn.device_id)
            /\ isTimestamp(telemetryIn.timestamp)
            /\ OptionalFieldsWellFormed(telemetryIn))

\* the checks of section 4.1, in the order claimed, each with the error it reports
TelemetryChecks(t) ==
    << <<t.k # "object", Failure("missing_param", "invalid missing telemetry")>>,
       <<t.gps.k # "object", Failure("missing_param", "invalid missing gps")>>,
       <<~isUUID(t.device_id), Failure("missing_param", "no device_id included in telemetry")>>,
       <<~InRange(t.gps.lat, -90, 90), Failure("bad_param", "invalid lat")>>,
       <<~InRange(t.gps.lng, -180, 180), Failure("bad_param", "invalid lng")>>,
       <<Present(t.gps.altitude) /\ ~isFloat(t.gps.altitude),
         Failure("bad_param", "invalid altitude")>>,
       <<Present(t.gps.accuracy) /\ ~isFloat(t.gps.accuracy),
         Failure("bad_param", "invalid accuracy")>>,
       <<Present(t.gps.speed) /\ ~isFloat(t.gps.speed), Failure("bad_param", "invalid speed")>>,
       <<Present(t.gps.satellites) /\
           ~(NumberIsInteger(t.gps.satellites) /\ ~LessThan(t.gps.satellites, 0)),
         Failure("bad_param", "invalid satellites")>>,
       <<Present(t.charge) /\ ~isPct(t.charge), Failure("bad_param", "invalid charge")>>,
       <<~isTimestamp(t.timestamp), Failure("bad_param", "invalid timestamp")>> >>

\* the error of the earliest failing check, null when every check passes
EarliestFailure(t) ==
    LET checks == TelemetryChecks(t)
        failing == {i \in 1..Len(checks) : checks[i][1]}
    IN  IF failing = {} THEN NoFailure
        ELSE checks[CHOOSE i \in failing : \A j \in failing : i <= j][2]

\* C11: badTelemetry reports exactly the error of the earliest failing check, in the
\* order telemetry, gps, device_id (missing_param), then lat, lng, altitude, accuracy,
\* speed, satellites, charge, timestamp (bad_param).
C11_Earliest_failing_check ==
    telemetryOut # NotCalled => telemetryOut = EarliestFailure(telemetryIn)

\* C12: a telemetry whose satellites is present and is not a non-negative integer is
\* rejected, with bad_param when no earlier check fails, and no accepted telemetry
\* has satellites < 0.
C12_Satellites_non_negative_integer ==
    /\ telemetryOut # NotCalled
    /\ telemetryIn.k = "object" /\ telemetryIn.gps.k = "object"
    /\ Present(telemetryIn.gps.satellites)
    /\ ~(NumberIsInteger(telemetryIn.gps.satellites) /\ ~LessThan(telemetryIn.gps.satellites, 0))
    => /\ telemetryOut # NoFailure
       /\ telemetryOut.error = "missing_param" \/ telemetryOut.error = "bad_param"

-----------------------------------------------------------------------------
(* Properties of badEvent *)

\* badEvent was called on a device of one of these modalities
CalledFor(modalities) == eventOut # NotCalled /\ eventIn.device.modality \in modalities

\* every element of event_types and the vehicle_state are in the vocabularies
InVocabulary(event, events, states) ==
    /\ event.event_types.k = "array"
    /\ \A i \in 1..Len(event.event_types.v) : event.event_types.v[i] \in events
    /\ event.vehicle_state \in states

TripBoundary(event) ==
    \E i \in 1..Len(event.event_types.v) :
        event.event_types.v[i] \in
            {"trip_start", "trip_end", "trip_enter_jurisdiction", "trip_leave_jurisdiction"}

DropOff(event) ==
    \E i \in 1..Len(event.event_types.v) : event.event_types.v[i] = "provider_drop_off"

NoTripId(event) == event.trip_id \in {UNDEFINED, NULL, ""}

\* steps 1, 2, 7, 9 and 10 of section 4.2: what the validator asks besides the vocabulary
OtherChecksPass(event) ==
    /\ isTimestamp(event.timestamp)
    /\ event.event_types.k = "array" /\ Len(event.event_types.v) > 0
    /\ NoTripId(event) \/ isUUID(event.trip_id)
    /\ TripBoundary(event) => badTelemetry(event.telemetry) = NoFailure /\ ~NoTripId(event)
    /\ DropOff(event) => badTelemetry(event.telemetry) = NoFailure

\* C13 as stated: for a micromobility device badEvent accepts if and only if every
\* element of event_types is in the micromobility event vocabulary and vehicle_state is
\* in the micromobility state vocabulary.
C13_Micromobility_accepts_iff_vocabulary ==
    CalledFor({"micromobility"}) =>
        (eventOut = NoFailure <=>
            InVocabulary(eventIn.event, MICRO_MOBILITY_VEHICLE_EVENTS,
                         MICRO_MOBILITY_VEHICLE_STATES))

\* C13 as amended: for a micromobility device badEvent accepts only events within the
\* vocabularies, and accepts such an event if and only if it also passes the timestamp,
\* event_types shape, trip_id and event-specific telemetry checks.
C13_Micromobility_accepts_iff_all_checks ==
    CalledFor({"micromobility"}) =>
        (eventOut = NoFailure <=>
            /\ InVocabulary(eventIn.event, MICRO_MOBILITY_VEHICLE_EVENTS,
                            MICRO_MOBILITY_VEHICLE_STATES)
            /\ OtherChecksPass(eventIn.event))

\* an event within the vocabularies is accepted, another with an illegal element after
\* a legal one is not
C13_Witness ==
    /\ CalledFor({"micromobility"})
    /\ eventOut = NoFailure
    /\ eventIn.event.event_types.v = <<"provider_drop_off", "trip_start">>
    /\ eventIn.event.vehicle_state = "on_trip"

\* the event passed the checks made before the trip_state requirement
PassedVocabulary(modality, event) ==
    /\ isTimestamp(event.timestamp)
    /\ Len(event.event_types.v) > 0
    /\ \/ modality = "micromobility" /\ InVocabulary(event, MICRO_MOBILITY_VEHICLE_EVENTS,
                                                     MICRO_MOBILITY_VEHICLE_STATES)
       \/ modality = "taxi" /\ InVocabulary(event, TAXI_VEHICLE_EVENTS, TAXI_VEHICLE_STATES)
       \/ modality = "tnc" /\ InVocabulary(event, TNC_VEHICLE_EVENT, TNC_VEHICLE_STATE)

ExitEvents(modality) ==
    IF modality = "taxi" THEN TAXI_TRIP_EXIT_EVENTS ELSE TNC_TRIP_EXIT_EVENTS

\* the event is in a trip state and none of its event_types is a trip-exit event
InTripWithoutExit(modality, event) ==
    /\ event.vehicle_state \in TRIP_STATES
    /\ \A i \in 1..Len(event.event_types.v) : event.event_types.v[i] \notin ExitEvents(modality)

TripStateRejection(event) ==
    /\ event.trip_state \in {NULL, UNDEFINED, ""} =>
         eventOut.error = "missing_param" /\
         eventOut.error_description = "missing enum field trip_state required on trip events"
    /\ event.trip_state \notin {NULL, UNDEFINED, ""} /\ event.trip_state \notin TRIP_STATES =>
         eventOut.error = "bad_param" /\ eventOut.error_description = "invalid trip_state"

\* C14 as stated: for a taxi or tnc device an event in a trip state, with no trip-exit
\* event, is rejected unless its trip_state is legal: missing_param when absent,
\* bad_param when no member of TRIP_STATES, whether or not the event has a trip_id.
C14_Trip_state_required ==
    /\ CalledFor({"taxi", "tnc"})
    /\ PassedVocabulary(eventIn.device.modality, eventIn.event)
    /\ InTripWithoutExit(eventIn.device.modality, eventIn.event)
    => TripStateRejection(eventIn.event)

\* C14 as amended: the same, for an event that has a trip_id; an event without a
\* trip_id is not asked for a trip_state.
C14_Trip_state_required_with_trip_id ==
    /\ CalledFor({"taxi", "tnc"})
    /\ PassedVocabulary(eventIn.device.modality, eventIn.event)
    /\ InTripWithoutExit(eventIn.device.modality, eventIn.event)
    /\ ~NoTripId(eventIn.event)
    => TripStateRejection(eventIn.event)

C14_Witness ==
    /\ CalledFor({"tnc"})
    /\ eventIn.event.event_types.v = <<"trip_stop">>
    /\ eventIn.event.vehicle_state = "stopped"
    /\ eventIn.event.trip_id = "t1"
    /\ eventIn.event.trip_state = "bogus"
    /\ eventOut.error = "bad_param"

\* the event passed every check before the event-specific ones
PassedTripIdFormat(modality, event) ==
    /\ PassedVocabulary(modality, event)
    /\ modality \in {"taxi", "tnc"} /\ InTripWithoutExit(modality, event) /\ ~NoTripId(event)
         => event.trip_state \in TRIP_STATES
    /\ NoTripId(event) \/ isUUID(event.trip_id)

\* C15: for an event that passed the vocabulary and trip_id checks: with a trip-boundary
\* event type badEvent returns the telemetry validation error if there is one, else
\* missing_param 'missing trip_id' if trip_id is absent; else with provider_drop_off it
\* returns the telemetry validation result; else null.
C15_Event_specific_checks ==
    /\ eventOut # NotCalled
    /\ PassedTripIdFormat(eventIn.device.modality, eventIn.event)
    => eventOut =
         IF TripBoundary(eventIn.event)
         THEN IF badTelemetry(eventIn.event.telemetry) # NoFailure
              THEN badTelemetry(eventIn.event.telemetry)
              ELSE IF NoTripId(eventIn.event)
              THEN Failure("missing_param", "missing trip_id")
              ELSE NoFailure
         ELSE IF DropOff(eventIn.event)
         THEN badTelemetry(eventIn.event.telemetry)
         ELSE NoFailure

\* trip_start with valid telemetry and no trip_id is answered 'missing trip_id'
C15_Witness ==
    /\ eventOut = Failure("missing_param", "missing trip_id")
    /\ eventIn.event.event_types.v = <<"trip_start">>
    /\ eventIn.event.trip_id = UNDEFINED
    /\ badTelemetry(eventIn.event.telemetry) = NoFailure

-----------------------------------------------------------------------------
(* submitVehicleEvent and the device's history *)

\* the event of request r passes badEvent and badTelemetry for its registered device
PassesValidation(r) ==
    /\ req[r].device # NoDevice
    /\ validationFailure(req[r].device, req[r].event) = NoFailure

\* another request wrote the event of request r's (device_id, timestamp)
KeyTaken(r) ==
    \E other \in Requests \ {r} : SameKey(r, other) /\ "event" \in req[other].wrote

\* C20: for a registered device, an event that passes validation is accepted whenever
\* its (device_id, timestamp) is new, whatever events the device reported before; the
\* only rejection of a valid event is the duplicate one, for a key already taken.
C20_No_transition_check ==
    \A r \in Requests :
        Responded(r) /\ PassesValidation(r) /\ NoStoreError(r)
        => /\ req[r].failure = NoFailure
           /\ IF KeyTaken(r) THEN AnsweredDuplicate(r) ELSE Answered201(r)

\* reserved at an earlier timestamp is accepted after on_trip was accepted
C20_Witness ==
    \E r \in Requests : \E first \in req[r].after :
        /\ Answered201(first) /\ req[first].body.vehicle_state = "on_trip"
        /\ Answered201(r) /\ req[r].body.vehicle_state = "reserved"
        /\ req[first].device_id = req[r].device_id
        /\ LessThan(req[r].body.timestamp, req[first].body.timestamp.n)
        /\ PassesValidation(r)

-----------------------------------------------------------------------------
(* submitVehicleEvent: the order of the durable writes *)

\* two rows with the same (device_id, timestamp)
SameRowKey(t, u) == t.device_id = u.device_id /\ t.timestamp = u.timestamp

\* the store of record holds the telemetry request r's event carries
TelemetryStored(r) ==
    \E t \in dbTelemetry : SameRowKey(t, req[r].event.telemetry)

\* request r has left the handler's try block without writing its event
EndedWithoutEvent(r) == req[r].pc \in {"failAudit", "done"} /\ "event" \notin req[r].wrote

EventCalls == {<<"event", "cache">>, <<"event", "stream">>}

\* C22: for an event with telemetry db.writeTelemetry has completed when db.writeEvent
\* is invoked; when db.writeTelemetry fails the request is answered an error, and
\* from then on it neither writes the event to the store nor issues a cache or stream
\* write of it.
C22_Telemetry_before_event ==
    /\ [](\A r \in Requests :
            /\ req[r].pc = "writeEvent" /\ req[r].event.telemetry.k = "object"
                 => TelemetryStored(r)
            /\ "event" \in req[r].wrote /\ req[r].event.telemetry.k = "object"
                 => TelemetryStored(r)
            /\ req[r].pending \cap EventCalls # {} => "event" \in req[r].wrote)
    /\ [][\A r \in Requests :
            req[r].pc = "writeTelemetry" /\ req'[r].pc # "writeTelemetry" =>
                /\ dbEvents' = dbEvents
                /\ \/ TelemetryStored(r)' /\ req'[r].pc = "writeEvent"
                   \/ /\ dbTelemetry' = dbTelemetry
                      /\ req'[r].pc = "failAudit"
                      /\ req'[r].res.sent = 1 /\ req'[r].res.status = 500]_vars
    /\ [][\A r \in Requests :
            EndedWithoutEvent(r) =>
                /\ EndedWithoutEvent(r)'
                /\ req'[r].res = req[r].res
                /\ req'[r].pending \cap EventCalls = {}
                /\ StepOf(r) => dbEvents' = dbEvents /\ cacheEvents' = cacheEvents
                                 /\ streamEvent' = streamEvent]_vars

\* db.writeTelemetry failed for a valid event with telemetry: 500, nothing stored
C22_Witness ==
    \E r \in Requests :
        /\ req[r].pc = "done"
        /\ PassesValidation(r) /\ req[r].failure = NoFailure
        /\ req[r].event.telemetry.k = "object"
        /\ ~TelemetryStored(r)
        /\ req[r].res.status = 500
        /\ req[r].wrote = {}
        /\ dbEvents = {} /\ streamEvent = << >>

\* the cache and stream writes of request r's accepted event and of its telemetry
RecordCalls == {<<group, sink>> : group \in {"event", "telemetry"}, sink \in {"cache", "stream"}}

\* C23: the response for an accepted record is sent only after its cache write and
\* its stream write have both settled: once the request is answered none of them is
\* still pending.
C23_Response_after_all_settled ==
    \A r \in Requests :
        Responded(r) /\ "event" \in req[r].wrote => req[r].pending \cap RecordCalls = {}

-----------------------------------------------------------------------------
(* submitVehicleEvent: the re-seed of the cache *)

DeviceCalls == {<<"device", "cache">>, <<"device", "stream">>}

\* the validators' verdict on request r's event, as attached to its device
Verdict(r) == validationFailure(req[r].device, attachDeviceId(req[r].event))

\* request r has come out of validation as its event alone decides
Validated(r) ==
    IF Verdict(r) = Thrown
    THEN req[r].res.sent = 1 /\ req[r].res.status = 500
    ELSE /\ req[r].res.sent = 0
         /\ req[r].failure = Verdict(r)
         /\ req[r].pc \in {"auditFailure", "writeTelemetry", "writeEvent"}

-----------------------------------------------------------------------------
(* submitVehicleEvent: the trip_id of the stored events *)

\* a trip_id that is given and is no UUID
BadTripId(trip_id) == trip_id \notin {UNDEFINED, NULL, ""} /\ ~isUUID(trip_id)

\* C25: every event in the store of record has a trip_id that is null, absent or a
\* UUID; an event submitted with trip_id '' is validated as one without trip_id and
\* stored with trip_id null; an event with a non-UUID trip_id is answered 400
\* bad_param and not stored.
C25_Stored_trip_id ==
    /\ \A e \in dbEvents : e.trip_id \in {NULL, UNDEFINED} \/ isUUID(e.trip_id)
    /\ \A r \in Requests :
          Responded(r) /\ req[r].device # NoDevice /\ NoStoreError(r)
          => /\ req[r].body.trip_id = ""
                  => /\ req[r].event.trip_id = NULL
                     /\ validationFailure(req[r].device,
                                           [req[r].event EXCEPT !.trip_id = NULL]) = NoFailure
                          => req[r].failure = NoFailure
                     /\ "event" \in req[r].wrote => req[r].event \in dbEvents
             /\ BadTripId(req[r].body.trip_id)
                  => /\ req[r].res.status = 400 /\ req[r].res.error = "bad_param"
                     /\ req[r].wrote = {}

\* an event submitted with trip_id '' is in the store with trip_id null
C25_Witness ==
    \E r \in Requests :
        /\ req[r].body.trip_id = ""
        /\ Answered201(r)
        /\ \E e \in dbEvents : e = req[r].event /\ e.trip_id = NULL

-----------------------------------------------------------------------------
(* Properties of registerVehicle and updateVehicle *)

RegResponded(g) == reg[g].res.sent > 0

\* C26: registerVehicle stores the device, with status 'removed', before any cache or
\* stream write; it answers 201 exactly when db.writeDevice succeeded, whatever the
\* cache and stream writes did, 409 already_registered for a duplicate, 500 for
\* another failure of the store and 400 when badDevice rejects; a request answered
\* 400, 409 or 500 has written nothing to store, cache or stream.
C26_Register_vehicle ==
    /\ [](\A g \in RegRequests :
            /\ reg[g].res.sent <= 1
            /\ reg[g].pending \cup reg[g].settled # {}
                 => reg[g].wrote /\ dbHasDevice(reg[g].device.device_id)
            /\ reg[g].wrote => reg[g].device.status = "removed"
            /\ reg[g].wrote /\ reg[g].pc = "done" /\ reg[g].pending = {} => RegResponded(g)
            /\ RegResponded(g)
                 => /\ reg[g].res.status = 201 <=> reg[g].wrote
                    /\ reg[g].res.status \in {201, 400, 409, 500}
                    /\ reg[g].res.status = 400 <=> badDevice(reg[g].device) # NoFailure
                    /\ reg[g].res.status = 409
                         => /\ reg[g].res.error = "already_registered"
                            /\ dbHasDevice(reg[g].device.device_id)
                    /\ reg[g].res.status # 201
                         => reg[g].pending = {} /\ reg[g].settled = {})
    /\ [][\A g \in RegRequests :
            ~RegResponded(g) /\ RegResponded(g)' /\ reg'[g].res.status # 201 =>
                /\ UNCHANGED <<storeVars, cacheVars, streamVars>>
                /\ reg'[g].res.status = 409 <=>
                      /\ badDevice(reg'[g].device) = NoFailure
                      /\ dbHasDevice(reg'[g].device.device_id)
                      /\ faults' = faults
                /\ reg'[g].res.status = 500 <=> faults' # faults]_vars

\* a device registered with 201 though its cache and stream writes both failed, and a
\* second registration of it answered 409
C26_Witness ==
    \E g1, g2 \in RegRequests :
        /\ reg[g1].res.status = 201 /\ reg[g1].wrote
        /\ reg[g1].pending = {} /\ reg[g1].settled = {}
        /\ reg[g2].res.status = 409
        /\ reg[g2].device.device_id = reg[g1].device.device_id
        /\ cacheDevices = {} /\ streamDevice = << >>

UpdResponded(u) == upd[u].res.sent > 0

\* C27: updateVehicle answers 201 exactly when db.readDevice returned a device of the
\* caller's provider and db.updateDevice succeeded, whatever the cache and stream
\* writes did; every other request is answered 404, never 500; the update leaves
\* every field of the stored device but vehicle_id as it was.
C27_Update_vehicle ==
    /\ [](\A u \in UpdRequests :
            /\ upd[u].res.sent <= 1
            /\ upd[u].wrote => upd[u].device.provider_id = upd[u].provider_id
            /\ upd[u].wrote /\ upd[u].pending = {} => UpdResponded(u)
            /\ upd[u].pc = "done" => UpdResponded(u)
            /\ UpdResponded(u)
                 => /\ upd[u].res.status \in {201, 404}
                    /\ upd[u].res.status = 201 <=> upd[u].wrote)
    /\ [][\A u \in UpdRequests :
            upd'[u] # upd[u] =>
                /\ Cardinality(dbDevices') = Cardinality(dbDevices)
                /\ \A d \in dbDevices' :
                      \E e \in dbDevices : d = [e EXCEPT !.vehicle_id = d.vehicle_id]
                /\ ~upd[u].wrote /\ upd'[u].wrote
                     => \E d \in dbDevices' : /\ d.device_id = upd[u].device.device_id
                                               /\ d.provider_id = upd[u].provider_id
                                               /\ d.vehicle_id = upd[u].update
                /\ ~(~upd[u].wrote /\ upd'[u].wrote) => dbDevices' = dbDevices]_vars

\* an update answered 201 though its cache and stream writes both failed
C27_Witness ==
    \E u \in UpdRequests :
        /\ upd[u].res.status = 201 /\ upd[u].wrote
        /\ upd[u].pending = {} /\ upd[u].settled = {}
        /\ \E d \in dbDevices : d.device_id = upd[u].device.device_id /\ d.vehicle_id = "v2"

-----------------------------------------------------------------------------
(* Cache and stream against the store of record *)

\* C28: every device, event and telemetry record the cache holds or a stream carries
\* is a record of the store of record.
C28_Fanout_only_stored_records ==
    /\ \A id \in cacheDevices : dbHasDevice(id)
    /\ \A i \in 1..Len(streamDevice) : streamDevice[i] \in dbDevices
    /\ \A d \in DeviceIds : cacheEvents[d] # NoEvent => cacheEvents[d] \in dbEvents
    /\ \A i \in 1..Len(streamEvent) : streamEvent[i] \in dbEvents
    /\ \A d \in DeviceIds : cacheTelemetry[d] # NoTelemetry => cacheTelemetry[d] \in dbTelemetry
    /\ \A i \in 1..Len(streamTelemetry) : streamTelemetry[i] \in dbTelemetry

-----------------------------------------------------------------------------
(* One response for each request *)

\* every request received so far has been answered
AllReceivedAnswered ==
    /\ \A r \in Requests : req[r].pc = "idle" \/ req[r].res.sent = 1
    /\ \A b \in BatchRequests : batch[b].pc = "idle" \/ batch[b].res.sent = 1

\* C29: no submitVehicleEvent or submitVehicleTelemetry request is answered twice, and
\* every one that was received is answered, whatever calls of db, cache and stream
\* fail: time and again every request received so far has its response.
C29_Exactly_one_response ==
    /\ [](\A r \in Requests : req[r].res.sent <= 1)
    /\ [](\A b \in BatchRequests : batch[b].res.sent <= 1)
    /\ []<>AllReceivedAnswered

\* a submission whose store write failed and whose audit record failed too was
\* answered once
C29_Witness ==
    \E r \in Requests :
        /\ req[r].pc = "done" /\ req[r].pending = {}
        /\ req[r].message = "other"
        /\ req[r].res.sent = 1 /\ req[r].res.status = 500
        /\ streamError = << >>
        /\ faults = MaxFaults

-----------------------------------------------------------------------------
(* Properties of submitVehicleTelemetry *)

\* the batch was answered
BatchResponded(b) == batch[b].pc = "done" /\ batch[b].res.sent > 0

\* the rows of the batch that were already in the store when it wrote
BatchDuplicates(b) == Len(batch[b].valid) - Cardinality(batch[b].recorded)

\* C16: a batch with at least one accepted item is answered 200 with success the
\* number of accepted items, total the batch size, success plus the number of reported
\* failures equal to total, and every failing item reported with the reason it failed.
C16_Batch_response ==
    \A b \in BatchRequests :
        BatchResponded(b) /\ batch[b].wrote /\ batch[b].recorded # {}
        => /\ batch[b].res.status = 200
           /\ batch[b].res.success = Len(batch[b].valid)
           /\ batch[b].res.total = Len(batch[b].data.v)
           /\ batch[b].res.success + Len(batch[b].res.failures) = batch[b].res.total
           /\ Len(batch[b].res.failures) = Len(batch[b].failures)
           /\ \A i \in 1..Len(batch[b].res.failures) :
                 /\ batch[b].res.failures[i].telemetry = batch[b].failures[i].telemetry
                 /\ batch[b].res.failures[i].reason = batch[b].failures[i].reason

\* C17: the rows handed to the cache and to the stream are exactly the rows
\* db.writeTelemetry returned; none of them had its (device_id, timestamp) in the
\* store of record before the write, so the stream never carries a key twice.
C17_Forwarded_rows_newly_recorded ==
    /\ \A b \in BatchRequests :
          batch[b].wrote
          => /\ batch[b].forwarded = batch[b].recorded
             /\ batch[b].recorded \subseteq Elements(batch[b].valid)
             /\ \A t \in batch[b].forwarded : ~\E u \in batch[b].before : SameRowKey(t, u)
             /\ \A t \in Elements(batch[b].valid) \ batch[b].forwarded :
                   \E u \in batch[b].before : SameRowKey(t, u)
    /\ \A i \in 1..Len(streamTelemetry) :
          /\ \E b \in BatchRequests : streamTelemetry[i] \in batch[b].recorded
          /\ \A j \in 1..Len(streamTelemetry) :
                SameRowKey(streamTelemetry[i], streamTelemetry[j]) => i = j

\* a batch of a stored row and a new row: only the new row reached cache and stream
C17_Witness ==
    \E b \in BatchRequests :
        /\ batch[b].wrote
        /\ batch[b].settled = {"cache", "stream"}
        /\ Len(batch[b].valid) = 2
        /\ Cardinality(batch[b].recorded) = 1
        /\ \E t \in Elements(batch[b].valid) : \E u \in batch[b].before : SameRowKey(t, u)
        /\ \E i \in 1..Len(streamTelemetry) : streamTelemetry[i] \in batch[b].recorded

\* C18: a batch whose valid rows were written is answered with the count of the
\* newly recorded rows and the count of the rows already stored, also when every
\* row was already stored.
C18_Accepted_and_duplicate_counts ==
    \A b \in BatchRequests :
        BatchResponded(b) /\ batch[b].wrote
        => /\ batch[b].res.status = 200
           /\ batch[b].res.success = Cardinality(batch[b].recorded)
           /\ batch[b].res.total - Len(batch[b].res.failures) - batch[b].res.success
                = BatchDuplicates(b)

\* the response of a written batch, whatever became of the two fan-out calls
ResponseOfWrite(b) ==
    IF batch[b].recorded # {}
    THEN /\ batch[b].res.status = 200
         /\ batch[b].res.success = Len(batch[b].valid)
         /\ batch[b].res.total = Len(batch[b].data.v)
         /\ Len(batch[b].res.failures) = Len(batch[b].failures)
    ELSE /\ batch[b].res.status = 400
         /\ batch[b].res.error = "invalid_data"
         /\ batch[b].res.error_details = batch[b].failures

\* C19: once db.writeTelemetry succeeded, the response is the one the written rows
\* determine, whether the cache write, the stream write or both failed, the response
\* is sent once, and the recorded rows stay in the store of record.
C19_Fanout_failure_not_propagated ==
    \A b \in BatchRequests :
        batch[b].wrote
        => /\ batch[b].recorded \subseteq dbTelemetry
           /\ batch[b].res.sent <= 1
           /\ BatchResponded(b) => ResponseOfWrite(b)
           /\ batch[b].pending = {} => BatchResponded(b)

\* both fan-out calls of a batch failed and the batch was answered 200
C19_Witness ==
    \E b \in BatchRequests :
        /\ batch[b].wrote
        /\ batch[b].pending = {}
        /\ batch[b].settled = {}
        /\ batch[b].res.status = 200
        /\ batch[b].recorded # {}
        /\ batch[b].recorded \subseteq dbTelemetry

-----------------------------------------------------------------------------
(* Properties of computeCompositeVehicleData *)

\* C21: the composite carries the device's fields; with an event state, prev_events
\* and updated are the event's vehicle_state, event_types and timestamp, without one
\* state is 'removed' and prev_events ['decommissioned']; gps is the telemetry's
\* exactly when the telemetry and its gps are present; the payload is not modified.
C21_Composite_vehicle ==
    compositeOut.called
    => /\ compositeOut.device = payloadGiven.device
       /\ payloadGiven.event.k = "object"
            => /\ compositeOut.state = payloadGiven.event.vehicle_state
               /\ compositeOut.prev_events = payloadGiven.event.event_types
               /\ compositeOut.updated = payloadGiven.event.timestamp
       /\ payloadGiven.event.k # "object"
            => /\ compositeOut.state = "removed"
               /\ compositeOut.prev_events = <<"decommissioned">>
       /\ IF payloadGiven.telemetry.k = "object" /\ payloadGiven.telemetry.gps.k = "object"
          THEN compositeOut.gps = payloadGiven.telemetry.gps
          ELSE compositeOut.gps = AbsentGps
       /\ payloadIn = payloadGiven

\* an event with state on_trip and no telemetry: the composite has its state, no gps
C21_Witness ==
    /\ compositeOut.called
    /\ payloadGiven.event.k = "object"
    /\ compositeOut.state = "on_trip"
    /\ compositeOut.prev_events = <<"battery_low", "trip_end">>
    /\ payloadGiven.telemetry.k = "null"
    /\ compositeOut.gps = AbsentGps

-----------------------------------------------------------------------------
(* Properties of the Provider API middleware *)

\* the claims carry a provider_id that is a UUID
ClaimsIdentifyProvider(claims) ==
    claims.k = "object" /\ Truthy(claims.provider_id) /\ isUUID(claims.provider_id)

\* C30: every request whose path does not contain '/health' and whose claims are
\* absent or carry no provider_id, or one that is not a UUID, is answered 403 and
\* never reaches a route handler, and a '/test/' route is reached only when the
\* claims' scope contains 'test:all'.
C30_Provider_id_required ==
    apiOut.called =>
        /\ ~pathIncludesHealth(apiIn.path) /\ ~ClaimsIdentifyProvider(apiIn.claims) =>
            /\ apiOut.sent = 1 /\ apiOut.status = 403
            /\ ~apiOut.next /\ apiOut.handler = << >>
        /\ pathIncludesTest(apiIn.path) /\ apiOut.handler # << >> =>
            scopeIncludesTestAll(apiIn.claims.scope)

\* a request for '/test/initialize' without credentials reached the route's handler
\* and was never answered 403
C30_Witness ==
    /\ apiIn.path = <<"test", "initialize">>
    /\ apiIn.claims = NoClaims
    /\ apiOut.called /\ apiOut.sent = 0
    /\ apiOut.handler = <<"test", "initialize">>

====
